---------------------------- MODULE Spec2Model ----------------------------
(***************************************************************************)
(* Model of the gym booking bot (src/gym_booking_bot.py, cron_booking.py). *)
(*                                                                         *)
(* Strings are sequences of one-character strings, so that split, strip,   *)
(* lower, int() and the csv reader are computed character by character.    *)
(* A date is its proleptic Gregorian ordinal (date.toordinal()); a         *)
(* datetime is a record [day, hour, minute, second], the wall clock of the *)
(* tzinfo that datetime.now(uk_tz) attached (replace() keeps that tzinfo,  *)
(* so the code's datetime arithmetic is wall-clock arithmetic).            *)
(***************************************************************************)
EXTENDS Integers, Sequences, FiniteSets, TLC

VARIABLES
    current_time,     \* the "now" a run samples / the argument of _is_booking_time
    schedule_entry,   \* the entry under evaluation (argument of _is_booking_time)
    anchor_day,       \* the calendar day on which the entry's time T is taken
    booking_time,     \* what _is_booking_time returned, or None
    instructor,       \* the argument of _parse_swim_instructor
    n_tokens,         \* how many tokens instructor was written from
    swim,             \* what _parse_swim_instructor returned, or None
    source,           \* the schedule text as written: header flag and pool lines
    content,          \* the argument of _parse_schedule_content
    parse,            \* the locals of the running _parse_schedule_content call
    returned,         \* what the calls of _parse_schedule_content returned, in order
    env,              \* environment: credentials set, state of the object store
    period,           \* minutes between two invocations of the cron entry point
    run_no,           \* how many invocations have started
    pc,               \* where run_scheduled_bookings is
    schedule,         \* the schedule the run loaded
    idx,              \* position of the for loop in schedule
    browser_open,     \* whether a browser session is open
    bookings_made,    \* the run's counter of successful bookings
    log,              \* what the run did for the latest due entry, in order
    evaluated,        \* the entries the run has evaluated, in order, and whether due
    exit_code,        \* exit status of the cron process, once it has ended
    elapsed,          \* minutes of wall-clock time the run's attempts have taken
    dispatched,       \* <<row_num, target day>> of every due entry, over all runs
    time_slot_inners, \* the page's lane containers, each the booking buttons it holds
    requested_time,   \* the time argument of book_swim_lane
    lane_idx,         \* position of the lane loop in lane_priority
    button_idx,       \* position of the button loop in the lane's buttons
    slot_booked,      \* the flag of the same name
    clicks,           \* the clicks made on booking buttons, in order
    lanes_obtained,   \* the lanes of the slots booked by the entries so far
    lane_pc,          \* where the slot selection is
    environ,          \* the settings of the process environment the notifier reads
    mail_pc,          \* where _send_booking_failure_email is
    mail_log,         \* what the notifier did, in order
    booking_kind,     \* which booking action the session is for: swim or class
    class_containers, \* the div.classDesktopWrapper elements of the calendar page
    sess_pc,          \* where the session is
    steps,            \* the steps of the session made so far, each with whether it was achieved
    class_events,     \* the clicks and button inspections of book_class's container loop
    returns           \* what login and the booking action returned

window_vars == <<current_time, schedule_entry, anchor_day, booking_time>>
swim_vars == <<instructor, n_tokens, swim>>
parse_vars == <<source, content, parse, returned>>
run_vars == <<env, period, run_no, pc, schedule, idx, browser_open, bookings_made,
              log, dispatched, evaluated, exit_code, elapsed>>
lane_vars == <<time_slot_inners, requested_time, lane_idx, button_idx, slot_booked,
               clicks, lanes_obtained, lane_pc>>
mail_vars == <<environ, mail_pc, mail_log>>
session_vars == <<booking_kind, class_containers, sess_pc, steps, class_events, returns>>
vars == <<window_vars, swim_vars, parse_vars, run_vars, lane_vars, mail_vars, session_vars>>

\* Python's None where a string or a list is expected
None == <<"None">>
\* no value where a record is expected (no match, not called yet)
Nothing == [none |-> TRUE]

(***************************************************************************)
(* Bounds of the model.                                                    *)
(***************************************************************************)
MaxDays == 9           \* anchor days are the ordinals 2 .. MaxDays + 1
MaxOffsetMin == 16     \* the clock is followed until T + MaxOffsetMin minutes
MaxTokens == 3         \* a swim spec is built from at most MaxTokens tokens
MaxRows == 3           \* a schedule text has at most MaxRows lines after its header
MaxRunRows == 2        \* a schedule text given to a run has at most MaxRunRows rows
MaxRuns == 3           \* at most MaxRuns periodic invocations are followed
MaxSwimEntries == 2    \* at most MaxSwimEntries entries book the same swim slot
MaxSlots == 1          \* a lane shows at most MaxSlots booking buttons

(***************************************************************************)
(* Characters and the str methods the code uses.                           *)
(***************************************************************************)
UpperChars == <<"A","B","C","D","E","F","G","H","I","J","K","L","M",
                "N","O","P","Q","R","S","T","U","V","W","X","Y","Z">>
LowerChars == <<"a","b","c","d","e","f","g","h","i","j","k","l","m",
                "n","o","p","q","r","s","t","u","v","w","x","y","z">>
DigitChars == <<"0","1","2","3","4","5","6","7","8","9">>
Whitespace == {" ", "\t", "\r", "\n", "\f"}

IsDigit(c) == \E k \in 1..10 : DigitChars[k] = c
DigitValue(c) == (CHOOSE k \in 1..10 : DigitChars[k] = c) - 1

\* str.lower(), character by character
LowerChar(c) ==
    IF \E k \in 1..26 : UpperChars[k] = c
    THEN LowerChars[CHOOSE k \in 1..26 : UpperChars[k] = c]
    ELSE c
lower(s) == [k \in 1..Len(s) |-> LowerChar(s[k])]

\* str.startswith(prefix)
startswith(s, prefix) ==
    /\ Len(s) >= Len(prefix)
    /\ SubSeq(s, 1, Len(prefix)) = prefix

\* str.strip(): leading and trailing whitespace removed
strip(s) ==
    LET keep == {k \in 1..Len(s) : s[k] \notin Whitespace}
    IN  IF keep = {} THEN <<>>
        ELSE LET lo == CHOOSE k \in keep : \A j \in keep : k <= j
                 hi == CHOOSE k \in keep : \A j \in keep : k >= j
             IN  SubSeq(s, lo, hi)

\* str.split(sep) for a one-character separator: the list of the pieces
RECURSIVE split(_, _)
split(s, sep) ==
    LET at == {k \in 1..Len(s) : s[k] = sep}
    IN  IF at = {} THEN <<s>>
        ELSE LET k == CHOOSE x \in at : \A y \in at : x <= y
             IN  <<SubSeq(s, 1, k - 1)>> \o split(SubSeq(s, k + 1, Len(s)), sep)

\* value of a non-empty run of decimal digits
RECURSIVE DigitsValue(_)
DigitsValue(ds) ==
    IF ds = <<>> THEN 0
    ELSE 10 * DigitsValue(SubSeq(ds, 1, Len(ds) - 1)) + DigitValue(ds[Len(ds)])

\* int(s): surrounding whitespace stripped, an optional sign, then decimal
\* digits that single underscores may separate; anything else is ValueError.
int(s) ==
    LET t == strip(s)
        signed == t # <<>> /\ t[1] \in {"+", "-"}
        body == IF signed THEN SubSeq(t, 2, Len(t)) ELSE t
        wellformed ==
            /\ body # <<>>
            /\ \A k \in 1..Len(body) : IsDigit(body[k]) \/ body[k] = "_"
            /\ IsDigit(body[1]) /\ IsDigit(body[Len(body)])
            /\ \A k \in 1..(Len(body) - 1) : ~(body[k] = "_" /\ body[k + 1] = "_")
        digits == SelectSeq(body, IsDigit)
    IN  IF ~wellformed THEN [ok |-> FALSE, value |-> 0]
        ELSE [ok |-> TRUE,
              value |-> IF signed /\ t[1] = "-" THEN 0 - DigitsValue(digits)
                        ELSE DigitsValue(digits)]

\* "%02d" % n for 0 <= n <= 99 (used to write the inputs of the model)
Format2(n) == <<DigitChars[(n \div 10) + 1], DigitChars[(n % 10) + 1]>>
FormatHHMM(h, m) == Format2(h) \o <<":">> \o Format2(m)

(***************************************************************************)
(* datetime                                                                *)
(***************************************************************************)
day_names ==
    << <<"m","o","n","d","a","y">>,
       <<"t","u","e","s","d","a","y">>,
       <<"w","e","d","n","e","s","d","a","y">>,
       <<"t","h","u","r","s","d","a","y">>,
       <<"f","r","i","d","a","y">>,
       <<"s","a","t","u","r","d","a","y">>,
       <<"s","u","n","d","a","y">> >>

\* date.weekday(): 0 is Monday; ordinal 1 (0001-01-01) is a Monday
weekday(ordinal) == (ordinal + 6) % 7

\* seconds since ordinal 0 at 00:00:00, and back (the model's clock)
ToSeconds(t) == ((t.day * 24 + t.hour) * 60 + t.minute) * 60 + t.second
FromSeconds(n) ==
    [day |-> n \div 86400, hour |-> (n % 86400) \div 3600,
     minute |-> (n % 3600) \div 60, second |-> n % 60]

(***************************************************************************)
(* GymBookingBot._is_booking_time                                          *)
(***************************************************************************)
BookingAdvanceDays == 8
BookingWindowMinutes == 15

\* target_datetime with now's time of day kept (current_time + timedelta(days=8))
target_datetime_KeepsTime(now) == [now EXCEPT !.day = now.day + BookingAdvanceDays]

\* current_time.date() + timedelta(days=8), combined with datetime.min.time()
target_datetime(now) ==
    [day |-> now.day + BookingAdvanceDays, hour |-> 0, minute |-> 0, second |-> 0]

target_day_name(now) == day_names[weekday(target_datetime(now).day) + 1]

\* InWindow with the window closed one minute late (<= 15 for < 15)
InWindow_Inclusive(now_minutes, scheduled_minutes) ==
    /\ now_minutes >= scheduled_minutes
    /\ now_minutes - scheduled_minutes <= BookingWindowMinutes

\* InWindow with the window opened one minute late (> for >=)
InWindow_Strict(now_minutes, scheduled_minutes) ==
    /\ now_minutes > scheduled_minutes
    /\ now_minutes - scheduled_minutes < BookingWindowMinutes

\* (current_time - scheduled_time).total_seconds() / 60 < 15, both times on
\* now's own date with seconds and microseconds set to 0
InWindow(now_minutes, scheduled_minutes) ==
    /\ now_minutes >= scheduled_minutes
    /\ now_minutes - scheduled_minutes < BookingWindowMinutes

\* _is_booking_time consulting a record of the entries already dispatched for
\* the target date
_is_booking_time_OncePerDate(e, now) ==
    LET target == target_datetime(now)
        p == split(e.time, ":")
        truncated == [now EXCEPT !.second = 0]
        scheduled_time == [truncated EXCEPT !.hour = int(p[1]).value,
                                           !.minute = int(p[2]).value]
    IN  [should_book |->
             /\ target_day_name(now) = e.day_of_week
             /\ InWindow(ToSeconds(truncated) \div 60, ToSeconds(scheduled_time) \div 60)
             /\ \A k \in 1..Len(dispatched) : dispatched[k] # <<e.row_num, target.day>>,
         target_date |-> target]

_is_booking_time(e, now) ==
    LET target == target_datetime(now)
    IN  IF target_day_name(now) # e.day_of_week
        THEN [should_book |-> FALSE, target_date |-> target]
        ELSE LET scheduled_time_parts == split(e.time, ":")
                 scheduled_hour == int(scheduled_time_parts[1]).value
                 scheduled_minute == int(scheduled_time_parts[2]).value
                 truncated == [now EXCEPT !.second = 0]
                 scheduled_time == [truncated EXCEPT !.hour = scheduled_hour,
                                                    !.minute = scheduled_minute]
             IN  [should_book |->
                      InWindow(ToSeconds(truncated) \div 60,
                               ToSeconds(scheduled_time) \div 60),
                  target_date |-> target]

(***************************************************************************)
(* GymBookingBot._parse_swim_instructor                                    *)
(***************************************************************************)
Str_swim == <<"s","w","i","m">>
Str_swim_paren == <<"s","w","i","m","(">>

\* the longest run of digits of s that starts at position k
RECURSIVE DigitRun(_, _)
DigitRun(s, k) ==
    IF k <= Len(s) /\ IsDigit(s[k]) THEN <<s[k]>> \o DigitRun(s, k + 1) ELSE <<>>

\* whether  swim\((\d+)\)  matches s at position k
SwimPatternAt(s, k) ==
    LET run == DigitRun(s, k + 5)
    IN  /\ k + 4 <= Len(s)
        /\ SubSeq(s, k, k + 4) = Str_swim_paren
        /\ run # <<>>
        /\ k + 5 + Len(run) <= Len(s)
        /\ s[k + 5 + Len(run)] = ")"

\* re.search(r'swim\((\d+)\)', s): group 1 of the leftmost match, or Nothing
re_search_swim(s) ==
    LET hits == {k \in 1..Len(s) : SwimPatternAt(s, k)}
    IN  IF hits = {} THEN Nothing
        ELSE LET k == CHOOSE x \in hits : \A y \in hits : x <= y
             IN  [group1 |-> DigitRun(s, k + 5)]

ValidSwimDurations == {15, 30}

_parse_swim_instructor(spec) ==
    IF ~startswith(lower(spec), Str_swim)
    THEN [is_swim |-> FALSE, duration |-> 0]
    ELSE LET match == re_search_swim(lower(spec))
         IN  IF match # Nothing /\ int(match.group1).value \in ValidSwimDurations
             THEN [is_swim |-> TRUE, duration |-> int(match.group1).value]
             ELSE [is_swim |-> FALSE, duration |-> 0]

(***************************************************************************)
(* csv.reader (dialect excel: delimiter ',', quotechar '"', doublequote,   *)
(* not strict) and csv.DictReader, as _parse_schedule_content drives them  *)
(***************************************************************************)
EOL == "EOL"     \* the end-of-line mark the reader processes after each line
IsNewline(c) == c \in {"\n", "\r"}

CsvStart == [st |-> "START_RECORD", field |-> <<>>, fields |-> <<>>]
SaveField(r) == [r EXCEPT !.fields = Append(r.fields, r.field), !.field = <<>>]
AddChar(r, c) == [r EXCEPT !.field = Append(r.field, c)]
AfterLineEnd(c) == IF c = EOL THEN "START_RECORD" ELSE "EAT_CRNL"

\* parse_process_char in state START_FIELD
StartField(r, c) ==
    IF c = EOL \/ IsNewline(c) THEN [SaveField(r) EXCEPT !.st = AfterLineEnd(c)]
    ELSE IF c = "\"" THEN [r EXCEPT !.st = "IN_QUOTED_FIELD"]
    ELSE IF c = "," THEN [SaveField(r) EXCEPT !.st = "START_FIELD"]
    ELSE [AddChar(r, c) EXCEPT !.st = "IN_FIELD"]

\* parse_process_char
ProcessChar(r, c) ==
    CASE r.st = "ERROR" -> r
      [] r.st = "START_RECORD" ->
            IF c = EOL THEN r
            ELSE IF IsNewline(c) THEN [r EXCEPT !.st = "EAT_CRNL"]
            ELSE StartField(r, c)
      [] r.st = "START_FIELD" -> StartField(r, c)
      [] r.st = "IN_FIELD" ->
            IF c = EOL \/ IsNewline(c) THEN [SaveField(r) EXCEPT !.st = AfterLineEnd(c)]
            ELSE IF c = "," THEN [SaveField(r) EXCEPT !.st = "START_FIELD"]
            ELSE AddChar(r, c)
      [] r.st = "IN_QUOTED_FIELD" ->
            IF c = EOL THEN r
            ELSE IF c = "\"" THEN [r EXCEPT !.st = "QUOTE_IN_QUOTED_FIELD"]
            ELSE AddChar(r, c)
      [] r.st = "QUOTE_IN_QUOTED_FIELD" ->
            IF c = "\"" THEN [AddChar(r, c) EXCEPT !.st = "IN_QUOTED_FIELD"]
            ELSE IF c = "," THEN [SaveField(r) EXCEPT !.st = "START_FIELD"]
            ELSE IF c = EOL \/ IsNewline(c)
                 THEN [SaveField(r) EXCEPT !.st = AfterLineEnd(c)]
            ELSE [AddChar(r, c) EXCEPT !.st = "IN_FIELD"]
      [] r.st = "EAT_CRNL" ->
            IF IsNewline(c) THEN r
            ELSE IF c = EOL THEN [r EXCEPT !.st = "START_RECORD"]
            ELSE [r EXCEPT !.st = "ERROR"]   \* new-line character seen in unquoted field

\* the characters of one line from position k on, then the end-of-line mark
RECURSIVE FeedLine(_, _, _)
FeedLine(r, line, k) ==
    IF k > Len(line) THEN ProcessChar(r, EOL)
    ELSE FeedLine(ProcessChar(r, line[k]), line, k + 1)

\* Reader.__next__: lines are consumed from position pos until a record is
\* complete; at the end of the input an open quoted field is closed.
RECURSIVE ReadRecord(_, _, _)
ReadRecord(r, ls, pos) ==
    IF pos > Len(ls)
    THEN IF r.field # <<>> \/ r.st = "IN_QUOTED_FIELD"
         THEN [kind |-> "row", fields |-> SaveField(r).fields, pos |-> pos]
         ELSE [kind |-> "stop", fields |-> <<>>, pos |-> pos]
    ELSE LET r2 == FeedLine(r, ls[pos], 1)
         IN  IF r2.st = "ERROR" THEN [kind |-> "error", fields |-> <<>>, pos |-> pos]
             ELSE IF r2.st = "START_RECORD"
                  THEN [kind |-> "row", fields |-> r2.fields, pos |-> pos + 1]
             ELSE ReadRecord(r2, ls, pos + 1)

reader_next(ls, pos) == ReadRecord(CsvStart, ls, pos)

\* DictReader.__next__ skips the records that are []
RECURSIVE NextNonEmpty(_, _)
NextNonEmpty(ls, pos) ==
    LET rec == reader_next(ls, pos)
    IN  IF rec.kind = "row" /\ rec.fields = <<>> THEN NextNonEmpty(ls, rec.pos) ELSE rec

\* row.get(key, ''): the dict DictReader builds is dict(zip(fieldnames, row)),
\* then restval None for every fieldname beyond the row's length
row_get(fieldnames, row, key) ==
    LET at == {k \in 1..Len(fieldnames) : fieldnames[k] = key}
    IN  IF at = {} THEN <<>>
        ELSE IF \E k \in at : k > Len(row) THEN None
        ELSE row[CHOOSE k \in at : \A j \in at : k >= j]

(***************************************************************************)
(* GymBookingBot._parse_schedule_content                                   *)
(***************************************************************************)
Str_user == <<"u","s","e","r">>
Str_instructor == <<"i","n","s","t","r","u","c","t","o","r">>
Str_day_of_week == <<"d","a","y","_","o","f","_","w","e","e","k">>
Str_time == <<"t","i","m","e">>
valid_users == { <<"p","e","t","e","r">>, <<"a","d","r","i","e","n","n","e">>, <<"l","u","c","y">> }
valid_days == {day_names[k] : k \in 1..7}

\* lines 1544-1550: two parts around ':', both int(), hour 0-23, minute 0-59
time_ok(time) ==
    LET time_parts == split(time, ":")
    IN  /\ Len(time_parts) = 2
        /\ int(time_parts[1]).ok /\ int(time_parts[2]).ok
        /\ int(time_parts[1]).value \in 0..23
        /\ int(time_parts[2]).value \in 0..59

\* clean_lines with the comment lines kept (only empty lines dropped)
clean_lines_KeepsComments(text) ==
    LET parts == split(text, "\n")
        stripped == [k \in 1..Len(parts) |-> strip(parts[k])]
    IN  SelectSeq(stripped, LAMBDA l : l # <<>>)

\* lines 1506-1511: the stripped lines that are neither empty nor comments
clean_lines(text) ==
    LET parts == split(text, "\n")
        stripped == [k \in 1..Len(parts) |-> strip(parts[k])]
    IN  SelectSeq(stripped, LAMBDA l : l # <<>> /\ l[1] # "#")

ParseIdle == [pc |-> "idle"]

\* ParseEnter with the schedule list kept from the previous call (a list that
\* outlives the call, as an attribute or a mutable default argument would)
ParseEnter_KeepsSchedule(text) ==
    IF clean_lines(text) = <<>>
    THEN [pc |-> "returned", result |-> <<>>]
    ELSE [pc |-> "rows", lines |-> clean_lines(text), line_pos |-> 1,
          fieldnames |-> None,
          schedule |-> IF parse.pc = "returned" THEN parse.result ELSE <<>>,
          row_num |-> 2]

\* lines 1503-1518, up to the first iteration of the for loop
ParseEnter(text) ==
    LET lines == clean_lines(text)
    IN  IF lines = <<>>
        THEN [pc |-> "returned", result |-> <<>>]
        ELSE [pc |-> "rows", lines |-> lines, line_pos |-> 1,
              fieldnames |-> None, schedule |-> <<>>, row_num |-> 2]

\* the fieldnames property: the first record read is the header
WithFieldnames(loc) ==
    IF loc.fieldnames # None THEN loc
    ELSE LET head == reader_next(loc.lines, loc.line_pos)
         IN  IF head.kind = "row"
             THEN [loc EXCEPT !.fieldnames = head.fields, !.line_pos = head.pos]
             ELSE [loc EXCEPT !.pc = head.kind]

\* lines 1520-1568: the body of the for loop for one row; the schedule after it
AfterRow(sched, fieldnames, row, row_num) ==
    LET raw == [k \in {Str_user, Str_instructor, Str_day_of_week, Str_time}
                    |-> row_get(fieldnames, row, k)]
        user == lower(strip(raw[Str_user]))
        day_of_week == lower(strip(raw[Str_day_of_week]))
        time == strip(raw[Str_time])
    IN  IF \E k \in DOMAIN raw : raw[k] = None THEN sched  \* AttributeError, caught
        ELSE IF \E k \in DOMAIN raw : strip(raw[k]) = <<>> THEN sched
        ELSE IF user \notin valid_users THEN sched
        ELSE IF day_of_week \notin valid_days THEN sched
        ELSE IF ~time_ok(time) THEN sched
        ELSE Append(sched,
                    [user |-> user, instructor |-> strip(raw[Str_instructor]),
                     day_of_week |-> day_of_week, time |-> time,
                     row_num |-> row_num])

\* one iteration of  for row_num, row in enumerate(csv_reader, start=2),
\* the return after the last row, or the outer except (csv.Error): return []
ParseStep(loc) ==
    LET l == WithFieldnames(loc)
        rec == NextNonEmpty(l.lines, l.line_pos)
    IN  IF l.pc = "error" \/ (l.pc = "rows" /\ rec.kind = "error")
        THEN [pc |-> "returned", result |-> <<>>]
        ELSE IF l.pc = "stop" \/ rec.kind = "stop"
        THEN [pc |-> "returned", result |-> loc.schedule]
        ELSE [l EXCEPT !.line_pos = rec.pos,
                       !.schedule = AfterRow(l.schedule, l.fieldnames, rec.fields, l.row_num),
                       !.row_num = l.row_num + 1]

RECURSIVE ParseRun(_)
ParseRun(loc) == IF loc.pc = "returned" THEN loc.result ELSE ParseRun(ParseStep(loc))

_parse_schedule_content(text) == ParseRun(ParseEnter(text))

(***************************************************************************)
(* The parts of the state a specification leaves alone                     *)
(***************************************************************************)
WindowIdle ==
    /\ schedule_entry = Nothing /\ anchor_day = 0 /\ booking_time = Nothing
    /\ current_time = FromSeconds(0)

SwimIdle ==
    instructor = <<>> /\ n_tokens = 0 /\ swim = Nothing

ParseVarsIdle ==
    /\ source = Nothing /\ content = <<>> /\ parse = ParseIdle /\ returned = <<>>

RunVarsIdle ==
    /\ env = Nothing /\ period = 0 /\ run_no = 0 /\ pc = "idle" /\ schedule = <<>>
    /\ idx = 0 /\ browser_open = FALSE /\ bookings_made = 0 /\ log = <<>>
    /\ dispatched = <<>> /\ evaluated = <<>> /\ exit_code = <<>> /\ elapsed = 0

LaneVarsIdle ==
    /\ time_slot_inners = <<>> /\ requested_time = <<>> /\ lane_idx = 0
    /\ button_idx = 0 /\ slot_booked = FALSE /\ clicks = <<>> /\ lane_pc = "idle"
    /\ lanes_obtained = <<>>

MailVarsIdle ==
    /\ environ = Nothing /\ mail_pc = "idle" /\ mail_log = <<>>

SessionVarsIdle ==
    /\ booking_kind = "" /\ class_containers = <<>> /\ sess_pc = "idle" /\ steps = <<>>
    /\ class_events = <<>> /\ returns = <<>>

(***************************************************************************)
(* Evaluating one entry around its scheduled time (SpecWindow)             *)
(***************************************************************************)
WindowTimes == {<<0, 0>>, <<8, 15>>, <<23, 45>>, <<23, 50>>, <<23, 59>>}

WindowEntries ==
    {[user |-> <<"p","e","t","e","r">>, instructor |-> <<"M","a","r","i">>, day_of_week |-> day_names[d],
      time |-> FormatHHMM(hm[1], hm[2])] : d \in 1..7, hm \in WindowTimes}

\* the instant "anchor_day at the entry's time"
ScheduledInstant ==
    LET p == split(schedule_entry.time, ":")
    IN  [day |-> anchor_day, hour |-> int(p[1]).value,
         minute |-> int(p[2]).value, second |-> 0]

\* seconds from the scheduled instant to current_time (negative before it)
OffsetSeconds == ToSeconds(current_time) - ToSeconds(ScheduledInstant)

InitWindow ==
    /\ schedule_entry \in WindowEntries
    /\ anchor_day \in 2..(MaxDays + 1)
    /\ current_time = FromSeconds(ToSeconds(ScheduledInstant) - 120)
    /\ booking_time = Nothing
    /\ SwimIdle
    /\ ParseVarsIdle
    /\ RunVarsIdle
    /\ LaneVarsIdle
    /\ MailVarsIdle
    /\ SessionVarsIdle

\* half a minute passes
Tick ==
    /\ OffsetSeconds < MaxOffsetMin * 60
    /\ current_time' = FromSeconds(ToSeconds(current_time) + 30)
    /\ booking_time' = Nothing
    /\ UNCHANGED <<schedule_entry, anchor_day, swim_vars, parse_vars, run_vars, lane_vars, mail_vars, session_vars>>

\* should_book, target_date = self._is_booking_time(entry, current_time)
Evaluate ==
    /\ booking_time = Nothing
    /\ booking_time' = _is_booking_time(schedule_entry, current_time)
    /\ UNCHANGED <<current_time, schedule_entry, anchor_day, swim_vars, parse_vars, run_vars, lane_vars, mail_vars, session_vars>>

NextWindow == Tick \/ Evaluate

SpecWindow == InitWindow /\ [][NextWindow]_vars

(***************************************************************************)
(* Claims on the eligibility window                                        *)
(***************************************************************************)
Evaluated == booking_time # Nothing

\* the weekday of (date of now + 8 days) is the entry's day_of_week
TargetWeekdayMatches ==
    day_names[((current_time.day + 8 + 6) % 7) + 1] = schedule_entry.day_of_week

\* minutes from the entry's time on now's own calendar day to now, seconds dropped
MinutesSinceScheduled ==
    (current_time.hour * 60 + current_time.minute)
        - (ScheduledInstant.hour * 60 + ScheduledInstant.minute)

\* C1: _is_booking_time reports DUE if and only if the weekday of (date of
\* now + 8 days) equals entry.day_of_week and the minutes from entry.time on
\* now's own day to now (seconds dropped) lie in [0, 15); with a matching
\* weekday, now = T and T + 14 min are DUE, T + 15 min and T - 1 min are not.
C1_DueIffInWindow ==
    Evaluated =>
        /\ booking_time.should_book <=>
               (TargetWeekdayMatches /\ MinutesSinceScheduled \in 0..14)
        /\ (TargetWeekdayMatches /\ current_time.day = anchor_day) =>
               /\ OffsetSeconds = 0 => booking_time.should_book
               /\ OffsetSeconds = 14 * 60 => booking_time.should_book
               /\ OffsetSeconds = 15 * 60 => ~booking_time.should_book
        /\ OffsetSeconds = 0 - 60 => ~booking_time.should_book

\* C1 witness: an evaluation 14 min 30 s after the scheduled time is DUE
C1_Witness ==
    /\ Evaluated
    /\ OffsetSeconds = 14 * 60 + 30
    /\ booking_time.should_book

\* the entry's time T is taken on a day D with D + 8 on entry.day_of_week
AnchorMatches ==
    day_names[((anchor_day + 8 + 6) % 7) + 1] = schedule_entry.day_of_week

SwimTokens ==
    { <<"S","w","i","m">>, <<"s","w","i","m">>, <<"S","W","I","M">>, <<"M","a","r","i">>,
      <<"(","1","5",")">>, <<"(","3","0",")">>, <<"(","4","5",")">>, <<"(","0","3","0",")">>,
      <<"(","3">>, <<"(",")">>, <<"x">>, <<" ">> }

InitSwim ==
    /\ instructor = <<>>
    /\ n_tokens = 0
    /\ swim = Nothing
    /\ WindowIdle
    /\ ParseVarsIdle
    /\ RunVarsIdle
    /\ LaneVarsIdle
    /\ MailVarsIdle
    /\ SessionVarsIdle

\* one more token is written at the end of the spec
AppendToken ==
    /\ n_tokens < MaxTokens
    /\ \E tok \in SwimTokens : instructor' = instructor \o tok
    /\ n_tokens' = n_tokens + 1
    /\ swim' = Nothing
    /\ UNCHANGED <<window_vars, parse_vars, run_vars, lane_vars, mail_vars, session_vars>>

\* is_swim, duration = self._parse_swim_instructor(entry['instructor'])
ParseSwim ==
    /\ swim = Nothing
    /\ swim' = _parse_swim_instructor(instructor)
    /\ UNCHANGED <<instructor, n_tokens, window_vars, parse_vars, run_vars, lane_vars, mail_vars, session_vars>>

NextSwim == AppendToken \/ ParseSwim

SpecSwim == InitSwim /\ [][NextSwim]_vars

\* the spec is, case-insensitively, 'swim' followed at once by a parenthesised
\* run of digits of value d (whatever follows the closing parenthesis)
IsSwimSpecOf(spec, d) ==
    LET low == lower(spec)
        run == DigitRun(low, 6)
    IN  /\ startswith(low, Str_swim_paren)
        /\ run # <<>>
        /\ 6 + Len(run) <= Len(low)
        /\ low[6 + Len(run)] = ")"
        /\ DigitsValue(run) = d

\* C9 as claimed: _parse_swim_instructor returns (True, d) exactly when the spec
\* is 'swim' followed by a parenthesised duration d in {15, 30}, and (False, 0)
\* for every other string.
C9_SwimExactlyWhenSwimSpec ==
    swim # Nothing =>
        IF \E d \in {15, 30} : IsSwimSpecOf(instructor, d)
        THEN swim.is_swim /\ IsSwimSpecOf(instructor, swim.duration)
        ELSE swim = [is_swim |-> FALSE, duration |-> 0]

(***************************************************************************)
(* Parsing written schedule texts, twice (SpecParse)                       *)
(***************************************************************************)
HeaderLine == <<"u","s","e","r",",","i","n","s","t","r","u","c","t","o","r",",","d","a","y","_","o","f","_","w","e","e","k",",","t","i","m","e">>

\* the lines a schedule text is written from, each with what it is and, for
\* a row that satisfies the documented formats, the entry it stands for
LinePool ==
    <<
       [kind |-> "valid",
        text |-> <<"p","e","t","e","r",",","M","a","r","i",",","s","a","t","u","r","d","a","y",",","0","8",":","1","5">>,
        entry |-> [user |-> <<"p","e","t","e","r">>, instructor |-> <<"M","a","r","i">>,
          day_of_week |-> <<"s","a","t","u","r","d","a","y">>, time |-> <<"0","8",":","1","5">>]],
       [kind |-> "valid",
        text |-> <<"L","u","c","y",","," ","S","w","i","m","(","3","0",")",",","M","O","N","D","A","Y",",","0","7",":","3","0">>,
        entry |-> [user |-> <<"l","u","c","y">>, instructor |-> <<"S","w","i","m","(","3","0",")">>,
          day_of_week |-> <<"m","o","n","d","a","y">>, time |-> <<"0","7",":","3","0">>]],
       [kind |-> "malformed",
        text |-> <<"b","o","b",",","M","a","r","i",",","m","o","n","d","a","y",",","0","8",":","1","5">>,
        entry |-> Nothing],
       [kind |-> "malformed",
        text |-> <<"l","u","c","y",",","M","a","r","i",",","f","u","n","d","a","y",",","0","8",":","1","5">>,
        entry |-> Nothing],
       [kind |-> "malformed",
        text |-> <<"l","u","c","y",",","M","a","r","i",",","m","o","n","d","a","y",",","2","4",":","0","0">>,
        entry |-> Nothing],
       [kind |-> "malformed",
        text |-> <<"p","e","t","e","r",",","M","a","r","i",",","m","o","n","d","a","y">>,
        entry |-> Nothing],
       [kind |-> "malformed",
        text |-> <<"p","e","t","e","r",",",",","m","o","n","d","a","y",",","0","8",":","1","5">>,
        entry |-> Nothing],
       [kind |-> "comment",
        text |-> <<" ","#"," ","p","e","t","e","r",",","M","a","r","i",",","s","a","t","u","r","d","a","y",",","0","8",":","1","5">>,
        entry |-> Nothing],
       [kind |-> "blank",
        text |-> <<" ","\t">>,
        entry |-> Nothing],
       [kind |-> "stray_cr",
        text |-> <<"b","o","b",",","M","a","\r","r","i",",","m","o","n","d","a","y",",","0","8",":","1","5">>,
        entry |-> Nothing],
       [kind |-> "open_quote",
        text |-> <<"b","o","b",",","\"","M","a","r","i",",","m","o","n","d","a","y",",","0","8",":","1","5">>,
        entry |-> Nothing],
       [kind |-> "loose_time",
        text |-> <<"a","d","r","i","e","n","n","e",",","T","e","r","r","y",",","s","u","n","d","a","y",",","8",":","5">>,
        entry |-> [user |-> <<"a","d","r","i","e","n","n","e">>, instructor |-> <<"T","e","r","r","y">>,
          day_of_week |-> <<"s","u","n","d","a","y">>, time |-> <<"8",":","5">>]]
    >>

Kind(k) == LinePool[k].kind

RECURSIVE JoinLines(_)
JoinLines(ls) ==
    IF ls = <<>> THEN <<>>
    ELSE IF Len(ls) = 1 THEN ls[1]
    ELSE ls[1] \o <<"\n">> \o JoinLines(Tail(ls))

\* a text: nothing or the header (a comment line before it or not), then rows
SourceHeads == { <<>>, <<HeaderLine>>, <<LinePool[8].text, HeaderLine>> }
HasHeader(src) == src.head # <<>>
TextOf(src) == JoinLines(src.head \o [k \in 1..Len(src.rows) |-> LinePool[src.rows[k]].text])

RowSeqs == UNION {[1..n -> 1..Len(LinePool)] : n \in 0..MaxRows}

InitParse ==
    /\ source \in [head : SourceHeads, rows : RowSeqs]
    /\ content = TextOf(source)
    /\ parse = ParseIdle
    /\ returned = <<>>
    /\ WindowIdle
    /\ SwimIdle
    /\ RunVarsIdle
    /\ LaneVarsIdle
    /\ MailVarsIdle
    /\ SessionVarsIdle

\* a call of self._parse_schedule_content(content), up to the for loop
ParseBegin ==
    /\ parse.pc \in {"idle", "returned"}
    /\ Len(returned) < 2
    /\ parse' = ParseEnter(content)
    /\ returned' = IF parse'.pc = "returned" THEN Append(returned, parse'.result)
                   ELSE returned
    /\ UNCHANGED <<source, content, window_vars, swim_vars, run_vars, lane_vars, mail_vars, session_vars>>

\* one iteration of the for loop (a row appended or skipped)
ParseRow ==
    /\ parse.pc = "rows"
    /\ LET stepped == ParseStep(parse)
       IN  stepped.pc = "rows" /\ parse' = stepped
    /\ UNCHANGED <<source, content, returned, window_vars, swim_vars, run_vars, lane_vars, mail_vars, session_vars>>

\* the reader is exhausted (return schedule) or raised csv.Error (return [])
ParseReturn ==
    /\ parse.pc = "rows"
    /\ LET stepped == ParseStep(parse)
       IN  stepped.pc = "returned" /\ parse' = stepped
    /\ returned' = Append(returned, parse'.result)
    /\ UNCHANGED <<source, content, window_vars, swim_vars, run_vars, lane_vars, mail_vars, session_vars>>

NextParse == ParseBegin \/ ParseRow \/ ParseReturn

SpecParse == InitParse /\ [][NextParse]_vars

(***************************************************************************)
(* Claims on _parse_schedule_content                                       *)
(***************************************************************************)
\* an entry without its row number
Fields(e) ==
    [user |-> e.user, instructor |-> e.instructor,
     day_of_week |-> e.day_of_week, time |-> e.time]

\* the entries of the rows written as valid, in source order
RECURSIVE ValidEntries(_)
ValidEntries(rows) ==
    IF rows = <<>> THEN <<>>
    ELSE IF Kind(rows[1]) = "valid"
         THEN <<LinePool[rows[1]].entry>> \o ValidEntries(Tail(rows))
    ELSE ValidEntries(Tail(rows))

\* C5 as claimed: with the header present, the result holds the entries of
\* exactly the valid rows, in source order, whatever malformed rows (bad user,
\* bad day, bad time, missing field, stray characters) stand among them: a bad
\* row never aborts the parse or discards rows accepted before it.
C5_ValidRowsKeptMalformedDropped ==
    ( /\ Len(returned) >= 1
      /\ HasHeader(source)
      /\ \A k \in 1..Len(source.rows) :
             Kind(source.rows[k]) \in {"valid", "malformed", "comment", "blank", "stray_cr"} )
        => [k \in 1..Len(returned[1]) |-> Fields(returned[1][k])]
               = ValidEntries(source.rows)

\* HH:MM in 24-hour notation: two digits, a colon, two digits, 00-23 and 00-59
IsHHMM(t) ==
    /\ Len(t) = 5
    /\ IsDigit(t[1]) /\ IsDigit(t[2]) /\ t[3] = ":" /\ IsDigit(t[4]) /\ IsDigit(t[5])
    /\ DigitsValue(SubSeq(t, 1, 2)) <= 23
    /\ DigitsValue(SubSeq(t, 4, 5)) <= 59

\* C6 as claimed: every returned entry has user in {peter, adrienne, lucy},
\* day_of_week in monday..sunday, and time of the form HH:MM.
C6_EntriesWellFormed ==
    \A c \in 1..Len(returned) : \A k \in 1..Len(returned[c]) :
        /\ returned[c][k].user \in valid_users
        /\ returned[c][k].day_of_week \in valid_days
        /\ IsHHMM(returned[c][k].time)

\* C8: two calls of _parse_schedule_content on the same text return identical
\* entry sequences; the first call leaves nothing that changes the second.
C8_ParseTwiceSame ==
    Len(returned) = 2 => returned[2] = returned[1]

\* C8 witness: a second call has returned two entries from a text that also
\* holds a malformed row
C8_Witness ==
    /\ Len(returned) = 2
    /\ Len(returned[2]) = 2
    /\ \E k \in 1..Len(source.rows) : Kind(source.rows[k]) = "malformed"

(***************************************************************************)
(* GymBookingBot.run_scheduled_bookings, invoked periodically (Spec)       *)
(***************************************************************************)
\* GymBookingBot.__init__: GYM_URL and the user's credentials must be set
bot_constructs(user) == env.gym_url /\ user \in env.credentials

\* the schedule parsed from a copy of the object whether or not the fetch
\* succeeds
load_schedule_from_s3_Cached == _parse_schedule_content(content)

\* _load_schedule / _load_schedule_from_s3, when the bucket is configured:
\* the parsed object, or [] when fetching it fails (boto3 cannot be imported,
\* or get_object, read or decode raises)
load_schedule_from_s3 ==
    IF env.s3 = "ok" THEN _parse_schedule_content(content) ELSE <<>>

\* target_date.strftime('%Y-%m-%d (%A)'): the date and the name of its weekday
strftime_date(t) == [date |-> t.day, weekday |-> day_names[weekday(t.day) + 1]]

\* the booking_details and failure_reason given to _send_booking_failure_email
failure_email(e, target, is_swim, duration, reason, mail) ==
    [ev |-> "email", row |-> e.row_num, user |-> e.user, instructor |-> e.instructor,
     time |-> e.time, target_date |-> strftime_date(target), is_swim |-> is_swim,
     duration |-> IF is_swim THEN <<duration>> ELSE <<>>, reason |-> reason,
     mail |-> mail]

\* booking_call choosing the action by the spec's prefix, not by is_swim
booking_call_BySpecPrefix(e, sw, target) ==
    IF startswith(lower(e.instructor), Str_swim)
    THEN [ev |-> "call", action |-> "book_swim_lane", row |-> e.row_num, user |-> e.user,
          target_date |-> target, duration |-> <<sw.duration>>, instructor |-> None,
          time |-> e.time]
    ELSE [ev |-> "call", action |-> "book_class", row |-> e.row_num, user |-> e.user,
          target_date |-> target, duration |-> <<>>, instructor |-> e.instructor,
          time |-> e.time]

\* booking_call with book_class for every entry
booking_call_AlwaysClass(e, sw, target) ==
    [ev |-> "call", action |-> "book_class", row |-> e.row_num, user |-> e.user,
     target_date |-> target, duration |-> <<>>, instructor |-> e.instructor,
     time |-> e.time]

\* lines 1745-1768: the booking action called for a due entry and its
\* arguments (book_swim_lane takes no instructor, book_class no duration)
booking_call(e, sw, target) ==
    IF sw.is_swim
    THEN [ev |-> "call", action |-> "book_swim_lane", row |-> e.row_num, user |-> e.user,
          target_date |-> target, duration |-> <<sw.duration>>, instructor |-> None,
          time |-> e.time]
    ELSE [ev |-> "call", action |-> "book_class", row |-> e.row_num, user |-> e.user,
          target_date |-> target, duration |-> <<>>, instructor |-> e.instructor,
          time |-> e.time]

session_event(what, e) == [ev |-> what, row |-> e.row_num, user |-> e.user]

\* the bot made for the default user, whatever the entry
user_bot_Default(e) == <<"p","e","t","e","r">>

\* line 1705: the bot is made for the entry's user; its login uses the
\* credentials of that user
user_bot(e) == e.user

login_event(what, e) ==
    [ev |-> what, row |-> e.row_num, user |-> e.user, credentials_of |-> user_bot(e)]

\* the rows a run's schedule text is written from
RunPool ==
    <<
       [kind |-> "valid",
        text |-> <<"p","e","t","e","r",",","M","a","r","i",",","s","a","t","u","r","d","a","y",",","0","8",":","1","5">>],
       [kind |-> "valid",
        text |-> <<"l","u","c","y",",","S","w","i","m","(","3","0",")",",","s","a","t","u","r","d","a","y",","," ","0","8",":","1","5"," ">>],
       [kind |-> "valid",
        text |-> <<"a","d","r","i","e","n","n","e",","," ","S","w","i","m","(","4","5",")"," ",",","s","a","t","u","r","d","a","y",",","0","8",":","1","5">>],
       [kind |-> "valid",
        text |-> <<"p","e","t","e","r",",","M","a","r","i",",","s","u","n","d","a","y",",","0","8",":","1","5">>],
       [kind |-> "malformed",
        text |-> <<"b","o","b",",","M","a","r","i",",","s","a","t","u","r","d","a","y",",","0","8",":","1","5">>],
       [kind |-> "comment",
        text |-> <<"#"," ","l","u","c","y",",","M","a","r","i",",","s","a","t","u","r","d","a","y",",","0","8",":","1","5">>],
       [kind |-> "stray_cr",
        text |-> <<"b","o","b",",","M","a","\r","r","i",",","s","a","t","u","r","d","a","y",",","0","8",":","1","5">>],
       [kind |-> "valid",
        text |-> <<"l","u","c","y",",","M","a","r","i",",","s","a","t","u","r","d","a","y",",","0","8",":","1","5">>]
    >>

RunKind(k) == RunPool[k].kind
BlankLine == <<" "," ">>
RunHeads == { <<>>, <<RunPool[6].text, BlankLine, HeaderLine>> }
\* the rows of a schedule file, drawn from the pool in pool order (a row may
\* repeat): the loop treats every position alike, and each kind of row has
\* a valid row after it in the pool
RunRowSeqs ==
    { s \in UNION {[1..n -> 1..Len(RunPool)] : n \in 0..MaxRunRows} :
        \A i \in 1..(Len(s) - 1) : s[i] <= s[i + 1] }
RunTextOf(src) ==
    JoinLines(src.head \o [k \in 1..Len(src.rows) |-> RunPool[src.rows[k]].text])

\* the first invocation: day 5 (day 5 + 8 is a Saturday), shortly before 08:15
RunStarts ==
    { [day |-> 5, hour |-> 8, minute |-> 10, second |-> 30] }
Periods == {5, 15}
\* the environment of the cron job: everything configured, or one thing amiss
FullEnv == [gym_url |-> TRUE, credentials |-> valid_users, s3 |-> "ok"]
RunEnvs ==
    { FullEnv,
      [FullEnv EXCEPT !.gym_url = FALSE],
      [FullEnv EXCEPT !.credentials = valid_users \ {<<"p","e","t","e","r">>}],
      [FullEnv EXCEPT !.credentials = valid_users \ {<<"a","d","r","i","e","n","n","e">>}],
      [FullEnv EXCEPT !.s3 = "unreadable"],
      [FullEnv EXCEPT !.s3 = "no_boto3"],
      [FullEnv EXCEPT !.s3 = "no_bucket"] }

\* what the mail configuration and the SMTP server do when a notification is
\* sent: a credential variable is unset; a statement of the try body raises
\* (int(SMTP_PORT), the connection, STARTTLS, login or sendmail); or the mail
\* is sent
MailOutcomes == {"sent", "not_configured", "exception"}

\* _send_booking_failure_email without its try/except
_send_booking_failure_email_NoExcept(mail) ==
    [raised |-> mail = "exception", delivered |-> mail = "sent"]

\* lines 362-423: unset credentials return early, an exception of the try
\* body is caught and printed; nothing is raised to the caller
_send_booking_failure_email(mail) ==
    IF mail = "not_configured" THEN [raised |-> FALSE, delivered |-> FALSE]
    ELSE IF mail = "exception" THEN [raised |-> FALSE, delivered |-> FALSE]
    ELSE [raised |-> FALSE, delivered |-> TRUE]

\* a notification made inside the inner try: were the call to raise, the inner
\* except (lines 1788-1802) would notify "Booking System Error", and a second
\* raise would reach the outer except
notification(e, target, is_swim, duration, reason, mail) ==
    IF ~_send_booking_failure_email(mail).raised
    THEN << failure_email(e, target, is_swim, duration, reason, mail) >>
    ELSE << failure_email(e, target, is_swim, duration, reason, mail),
            failure_email(e, target, is_swim, duration, "Booking System Error", mail),
            session_event("error_notify", e) >>

\* what the portal shows to a booking action: the final confirmation button
\* is not reached (a step before it fails or raises, or no button is found),
\* it is clicked and a success indicator appears, or it is clicked and none
\* appears
PortalOutcomes == {"not_reached", "success_shown", "no_indicator"}

\* lines 899-944: book_class returns True only when a success indicator is found
book_class(portal) == portal = "success_shown"

\* lines 1405-1436: book_swim_lane returns True once the final Book button is
\* clicked, with or without a success indicator
book_swim_lane(portal) == portal \in {"success_shown", "no_indicator"}

result_event(e, call, portal) ==
    [ev |-> "result", row |-> e.row_num, user |-> e.user, action |-> call.action,
     portal |-> portal,
     success |-> IF call.action = "book_swim_lane" THEN book_swim_lane(portal)
                 ELSE book_class(portal)]

Str_Swim_paren == <<"S","w","i","m","(">>

\* lines 1682-1685: the loaded entries with the entry's instructor, time and day
duplicate_entries(sched, e) ==
    SelectSeq(sched, LAMBDA x : /\ x.instructor = e.instructor
                                /\ x.time = e.time
                                /\ x.day_of_week = e.day_of_week)

\* the scan dropping the other entries of the slot from the schedule
schedule_after_scan_Dedup(sched, e) ==
    SelectSeq(sched, LAMBDA x : x = e \/ ~(/\ x.instructor = e.instructor
                                           /\ x.time = e.time
                                           /\ x.day_of_week = e.day_of_week))

\* lines 1682-1685: the list comprehension builds a new list; the schedule
\* is as it was
schedule_after_scan(sched, e) == sched

\* lines 1687-1699: the advisory printed when more than one entry is found
conflict_advisory(sched, e) ==
    IF Len(duplicate_entries(sched, e)) > 1
    THEN << [ev |-> "advisory", row |-> e.row_num, user |-> e.user,
             users_for_this_slot |->
                 [k \in 1..Len(duplicate_entries(sched, e)) |->
                      duplicate_entries(sched, e)[k].user],
             is_swim_conflict |-> startswith(e.instructor, Str_Swim_paren)] >>
    ELSE <<>>

\* the outer except re-raising: the exception leaves run_scheduled_bookings
outer_except_Reraise(i) == [pc |-> "raised", idx |-> i]

\* lines 1806-1808: the outer except prints the error and continues with the
\* next entry
outer_except(i) == [pc |-> "loop", idx |-> i + 1]

\* cron_booking.py, main with the exit status of the process: 0 when main
\* returns, sys.exit(0) when an exception is caught; here the exception is
\* left to end the process (status 1)
main_exit_code_Uncaught(how) == IF how = "raised" THEN 1 ELSE 0

\* cron_booking.py lines 7-18: the exit status of the process
main_exit_code(how) == IF how = "raised" THEN 0 ELSE 0

Init ==
    /\ source \in [head : RunHeads, rows : RunRowSeqs]
    /\ content = RunTextOf(source)
    /\ env \in RunEnvs
    /\ period \in Periods
    /\ current_time \in RunStarts
    /\ run_no = 0 /\ pc = "idle" /\ schedule = <<>> /\ idx = 0
    /\ browser_open = FALSE /\ bookings_made = 0 /\ log = <<>> /\ dispatched = <<>>
    /\ evaluated = <<>> /\ exit_code = <<>> /\ elapsed = 0
    /\ schedule_entry = Nothing /\ anchor_day = 0 /\ booking_time = Nothing
    /\ SwimIdle
    /\ LaneVarsIdle
    /\ parse = ParseIdle /\ returned = <<>>
    /\ MailVarsIdle
    /\ SessionVarsIdle

\* the wall-clock minutes the attempt for one due entry takes (bot, browser,
\* login, booking action with its timeouts, close): here long enough for a
\* 15-minute window entered 5 minutes ago to be over afterwards
SessionMinutes == 10
\* the wall clock when the loop takes up an entry
WallClock == FromSeconds(ToSeconds(current_time) + elapsed * 60)

\* the entry evaluated against the clock read again when it is reached
entry_now_Resampled(sampled, wall) == wall

\* lines 1652-1658 and 1674: current_time is assigned once, before the
\* schedule is loaded, and passed to _is_booking_time for every entry
entry_now(sampled, wall) == sampled

\* an invocation of the cron entry point, period minutes after the previous
\* one: cron_booking.py lines 9-11 (the default user's bot is constructed) and
\* gym_booking_bot.py lines 1652-1668
RunStart ==
    /\ pc \in {"idle", "exited"}
    /\ run_no < MaxRuns
    /\ run_no' = run_no + 1
    /\ current_time' = IF run_no = 0 THEN current_time
                       ELSE FromSeconds(ToSeconds(current_time) + period * 60)
    /\ IF ~bot_constructs(<<"p","e","t","e","r">>) \/ env.s3 = "no_bucket"
       THEN pc' = "raised" /\ schedule' = <<>>       \* ValueError out of __init__ or _load_schedule
       ELSE /\ schedule' = load_schedule_from_s3
            /\ pc' = IF schedule' = <<>> THEN "returned" ELSE "loop"
    /\ idx' = 1 /\ bookings_made' = 0 /\ log' = <<>>
    /\ evaluated' = <<>> /\ exit_code' = <<>> /\ elapsed' = 0
    /\ schedule_entry' = Nothing /\ booking_time' = Nothing /\ swim' = Nothing
    /\ UNCHANGED <<anchor_day, instructor, n_tokens, parse_vars, lane_vars, mail_vars, session_vars, env, period,
                   browser_open, dispatched>>

\* lines 1671-1705: the entry is evaluated; a due entry is scanned for
\* conflicts, its spec parsed and its user's bot constructed (a ValueError of
\* the constructor is caught by the outer except, lines 1806-1808, which
\* prints the error and continues). log holds what was done for the latest
\* due entry.
ProcessEntry ==
    /\ pc = "loop"
    /\ idx <= Len(schedule)
    /\ schedule_entry' = schedule[idx]
    /\ booking_time' = _is_booking_time(schedule[idx], entry_now(current_time, WallClock))
    /\ evaluated' = Append(evaluated, [row |-> schedule[idx].row_num,
                                       due |-> booking_time'.should_book])
    /\ IF ~booking_time'.should_book
       THEN /\ swim' = Nothing /\ pc' = "loop" /\ idx' = idx + 1
            /\ UNCHANGED <<log, dispatched, schedule, elapsed>>
       ELSE /\ swim' = _parse_swim_instructor(schedule[idx].instructor)
            /\ elapsed' = elapsed + SessionMinutes
            /\ schedule' = schedule_after_scan(schedule, schedule[idx])
            /\ dispatched' = Append(dispatched, <<schedule[idx].row_num,
                                                  booking_time'.target_date.day>>)
            /\ IF bot_constructs(user_bot(schedule[idx]))
               THEN /\ log' = << session_event("due", schedule[idx]) >> \o
                              conflict_advisory(schedule, schedule[idx])
                    /\ pc' = "launch" /\ idx' = idx
               ELSE /\ log' = << session_event("due", schedule[idx]) >> \o
                              conflict_advisory(schedule, schedule[idx]) \o
                              << session_event("error", schedule[idx]) >>
                    /\ pc' = outer_except(idx).pc /\ idx' = outer_except(idx).idx
    /\ UNCHANGED <<current_time, anchor_day, instructor, n_tokens, parse_vars, lane_vars, mail_vars, session_vars, env,
                   period, run_no, browser_open, bookings_made, exit_code>>

\* lines 1708-1724: the browser is launched and a page made in a new context.
\* Launching may raise (outer except); new_context or new_page may raise with
\* the browser launched, which the exit of async_playwright() then closes.
LaunchBrowser ==
    /\ pc = "launch"
    /\ \E launch \in {"ok", "launch_raises", "context_raises"} :
          IF launch = "ok"
          THEN /\ browser_open' = TRUE
               /\ log' = Append(log, session_event("session", schedule_entry))
               /\ pc' = "login" /\ idx' = idx
          ELSE /\ log' = log \o
                      (IF launch = "launch_raises"
                       THEN << session_event("error", schedule_entry) >>
                       ELSE << session_event("session", schedule_entry),
                               session_event("error_context", schedule_entry),
                               session_event("close", schedule_entry) >>)
               /\ pc' = outer_except(idx).pc /\ idx' = outer_except(idx).idx
               /\ UNCHANGED browser_open
    /\ UNCHANGED <<window_vars, swim_vars, parse_vars, lane_vars, mail_vars, session_vars, env, period, run_no, schedule,
                   bookings_made, dispatched, evaluated, exit_code, elapsed>>

\* a failed login going on to the booking action all the same
after_login_BooksAnyway(ok) == "book"

\* lines 1727-1745: where the entry goes on after login returned ok: to the
\* booking action, or by continue to the finally clause
after_login(ok) == IF ok THEN "book" ELSE "close"

\* lines 1726-1743: login; on failure the notification and continue, which
\* runs the finally clause
Login ==
    /\ pc = "login"
    /\ \E ok \in BOOLEAN :
          IF ok
          THEN /\ log' = Append(log, login_event("login_ok", schedule_entry))
               /\ pc' = after_login(TRUE)
          ELSE \E mail \in MailOutcomes :
               /\ log' = log \o
                      << login_event("login_failed", schedule_entry) >> \o
                      notification(schedule_entry, booking_time.target_date,
                                   swim.is_swim, swim.duration,
                                   "Login Authentication Failed", mail)
               /\ pc' = after_login(FALSE)
    /\ UNCHANGED <<window_vars, swim_vars, parse_vars, lane_vars, mail_vars, session_vars, env, period, run_no, schedule,
                   idx, browser_open, bookings_made, dispatched, evaluated, exit_code, elapsed>>

\* lines 1745-1786: the booking action, the counter when it returns True and
\* the notification when it returns False
Book ==
    /\ pc = "book"
    /\ \E portal \in PortalOutcomes : \E mail \in MailOutcomes :
          LET call == booking_call(schedule_entry, swim, booking_time.target_date)
              result == result_event(schedule_entry, call, portal)
          IN  /\ result.success => mail = "sent"     \* no notification is made
              /\ log' = log \o << call, result >> \o
                     (IF result.success THEN <<>>
                      ELSE notification(schedule_entry, booking_time.target_date,
                                        swim.is_swim, swim.duration,
                                        IF swim.is_swim THEN "Swim Lane Booking Failed"
                                        ELSE "Class Booking Failed", mail))
              /\ bookings_made' = IF result.success THEN bookings_made + 1
                                  ELSE bookings_made
    /\ pc' = "close"
    /\ UNCHANGED <<window_vars, swim_vars, parse_vars, lane_vars, mail_vars, session_vars, env, period, run_no, schedule,
                   idx, browser_open, dispatched, evaluated, exit_code, elapsed>>

\* lines 1803-1808: the finally clause, browser.close(); when it raises, the
\* outer except prints the error and the exit of async_playwright() ends the
\* browser
CloseBrowser ==
    /\ pc = "close"
    /\ \E close_raises \in BOOLEAN :
          /\ log' = log \o (IF close_raises
                            THEN << session_event("error_close", schedule_entry) >>
                            ELSE <<>>) \o
                           << session_event("close", schedule_entry) >>
          /\ pc' = IF close_raises THEN outer_except(idx).pc ELSE "loop"
          /\ idx' = IF close_raises THEN outer_except(idx).idx ELSE idx + 1
    /\ browser_open' = FALSE
    /\ UNCHANGED <<window_vars, swim_vars, parse_vars, lane_vars, mail_vars, session_vars, env, period, run_no, schedule,
                   bookings_made, dispatched, evaluated, exit_code, elapsed>>

\* lines 1810-1811: the loop is over, return True
RunReturn ==
    /\ pc = "loop"
    /\ idx > Len(schedule)
    /\ pc' = "returned"
    /\ UNCHANGED <<window_vars, swim_vars, parse_vars, lane_vars, mail_vars, session_vars, env, period, run_no, schedule,
                   idx, browser_open, bookings_made, log, dispatched, evaluated, exit_code, elapsed>>

\* cron_booking.py lines 12-18: main returns, or catches the exception and
\* calls sys.exit(0); the process ends
Exit ==
    /\ pc \in {"returned", "raised"}
    /\ exit_code' = << main_exit_code(pc) >>
    /\ pc' = "exited"
    /\ UNCHANGED <<window_vars, swim_vars, parse_vars, lane_vars, mail_vars, session_vars, env, period, run_no, schedule,
                   idx, browser_open, bookings_made, log, dispatched, evaluated, elapsed>>

Next ==
    \/ RunStart \/ ProcessEntry \/ LaunchBrowser \/ Login \/ Book \/ CloseBrowser
    \/ RunReturn \/ Exit

Spec == Init /\ [][Next]_vars

(***************************************************************************)
(* Claims on the runs                                                      *)
(***************************************************************************)
Midnight(d) == [day |-> d, hour |-> 0, minute |-> 0, second |-> 0]

\* C2: the target date _is_booking_time returns is the date of now plus 8 days
\* at 00:00, whatever the time of day and whether or not the entry is due, and
\* it is the target date given to the booking action and to the notification.
C2_TargetDateIsNowPlus8Days ==
    /\ booking_time # Nothing =>
           booking_time.target_date = Midnight(current_time.day + 8)
    /\ \A k \in 1..Len(log) :
           /\ log[k].ev = "call" => log[k].target_date = Midnight(current_time.day + 8)
           /\ log[k].ev = "email" =>
                  log[k].target_date =
                      [date |-> current_time.day + 8,
                       weekday |-> day_names[((current_time.day + 8 + 6) % 7) + 1]]

\* C2 witness: at 08:20 a booking action was called and a notification sent
\* for one entry, and the entry evaluated next is not due
C2_Witness ==
    /\ current_time.hour = 8 /\ current_time.minute = 20
    /\ \E k \in 1..Len(log) : log[k].ev = "call"
    /\ \E k \in 1..Len(log) : log[k].ev = "email"
    /\ booking_time # Nothing /\ ~booking_time.should_book

\* C4 as claimed: over periodic invocations no entry is dispatched twice for
\* the same target date (at most once per 15-minute window).
C4_AtMostOncePerWindow ==
    \A i, j \in 1..Len(dispatched) : dispatched[i] = dispatched[j] => i = j

\* the text without its comment and blank lines
WithoutComments(src) ==
    [head |-> IF src.head = <<>> THEN <<>> ELSE <<HeaderLine>>,
     rows |-> SelectSeq(src.rows, LAMBDA k : RunKind(k) # "comment")]

NoValidRows(src) == \A k \in 1..Len(src.rows) : RunKind(src.rows[k]) # "valid"

\* the run reads the schedule object: the default user's bot is constructed
\* and the object store answers
ObjectRead == bot_constructs(<<"p","e","t","e","r">>) /\ env.s3 = "ok"

\* a run has just loaded its schedule (no entry is evaluated yet)
Loaded == pc \in {"loop", "returned"} /\ idx = 1 /\ booking_time = Nothing

\* C7: comment and blank lines are ignored before CSV parsing; a text with
\* zero valid rows gives an empty list without raising, and the run then has
\* nothing to do: no browser, no dispatch, no notification, a normal return.
C7_CommentsIgnoredEmptyIsNothingToDo ==
    /\ (Loaded /\ ObjectRead) =>
           schedule = _parse_schedule_content(RunTextOf(WithoutComments(source)))
    /\ (pc # "idle" /\ ObjectRead /\ NoValidRows(source)) =>
           /\ schedule = <<>>
           /\ pc \in {"returned", "exited"}
           /\ log = <<>> /\ dispatched = <<>> /\ bookings_made = 0 /\ ~browser_open

\* C7 witness: a run returned on a text of a comment, the header, a malformed
\* row and a comment
C7_Witness ==
    /\ pc = "returned" /\ ObjectRead
    /\ source = [head |-> <<RunPool[6].text, BlankLine, HeaderLine>>, rows |-> <<5, 6>>]
    /\ schedule = <<>> /\ log = <<>>

\* the spec begins with 'swim' and is not accepted as a swim spec
InvalidSwimSpec(spec) ==
    startswith(lower(spec), Str_swim) /\ ~_parse_swim_instructor(spec).is_swim

EntryOfRow(r) == schedule[CHOOSE i \in 1..Len(schedule) : schedule[i].row_num = r]
EventsOfRow(r) == SelectSeq(log, LAMBDA e : e.row = r)
Count(evs, what) == Len(SelectSeq(evs, LAMBDA e : e.ev = what))
\* the for loop is past the entry of row r
Finished(r) ==
    \/ pc = "returned"
    \/ pc = "loop" /\ \A i \in idx..Len(schedule) : schedule[i].row_num # r

\* C10 as claimed: a due entry whose spec begins with 'swim' but has an invalid
\* duration is a no-op: no browser session, no booking action, no notification.
C10_InvalidSwimIsNoOp ==
    \A k \in 1..Len(log) :
        log[k].ev \in {"session", "call", "email"}
            => ~InvalidSwimSpec(EntryOfRow(log[k].row).instructor)

\* C10 amended: such an entry is processed as a class booking: unless building
\* its bot or launching the browser raises, a session is opened; after a
\* successful login book_class (never book_swim_lane) is called once with the
\* spec as instructor name; when login or book_class fails one notification
\* is sent, with is_swim false.
C10_InvalidSwimBookedAsClass ==
    \A k \in 1..Len(log) :
        LET e == EntryOfRow(log[k].row)
            evs == EventsOfRow(log[k].row)
        IN  InvalidSwimSpec(e.instructor) =>
              /\ log[k].ev = "call" =>
                     /\ log[k].action = "book_class"
                     /\ log[k].instructor = e.instructor
                     /\ log[k].time = e.time
              /\ log[k].ev = "email" =>
                     /\ ~log[k].is_swim /\ log[k].duration = <<>>
                     /\ log[k].reason \in {"Login Authentication Failed",
                                            "Class Booking Failed"}
              /\ Finished(log[k].row) =>
                     /\ Count(evs, "session") + Count(evs, "error") = 1
                     /\ Count(evs, "login_ok") = Count(evs, "call")
                     /\ Count(evs, "session")
                            = Count(evs, "login_ok") + Count(evs, "login_failed")
                              + Count(evs, "error_context")
                     /\ Count(evs, "login_failed") <= Count(evs, "email")
                     /\ Count(evs, "email") <= 1

\* C10 witness: the run called book_class for 'Swim(45)' and sent the
\* "Class Booking Failed" notification for it
C10_Witness ==
    \E k \in 1..Len(log) : \E j \in 1..Len(log) :
        /\ log[k].ev = "call" /\ log[k].action = "book_class"
        /\ log[k].instructor = <<"S","w","i","m","(","4","5",")">>
        /\ log[j].ev = "email" /\ log[j].row = log[k].row
        /\ log[j].reason = "Class Booking Failed"

(***************************************************************************)
(* GymBookingBot.book_swim_lane, step 4: the slot selection (SpecLanes)    *)
(***************************************************************************)
\* re.sub(r'\s+', ' ', s): every run of whitespace becomes one space
RECURSIVE collapse_whitespace(_)
collapse_whitespace(s) ==
    IF s = <<>> THEN <<>>
    ELSE IF s[1] \in Whitespace
         THEN LET rest == {k \in 1..Len(s) : s[k] \notin Whitespace}
              IN  IF rest = {} THEN <<" ">>
                  ELSE LET k == CHOOSE x \in rest : \A y \in rest : x <= y
                       IN  <<" ">> \o collapse_whitespace(SubSeq(s, k, Len(s)))
         ELSE <<s[1]>> \o collapse_whitespace(SubSeq(s, 2, Len(s)))

\* \w of the re module, for the characters of the model
IsWordChar(c) ==
    \/ IsDigit(c) \/ c = "_"
    \/ \E k \in 1..26 : UpperChars[k] = c \/ LowerChars[k] = c

\* \b at the gap before position k of s
WordBoundary(s, k) ==
    LET before == k > 1 /\ IsWordChar(s[k - 1])
        after == k <= Len(s) /\ IsWordChar(s[k])
    IN  before # after

\* \b(\d{1,2}:\d{2})\b matches at position i with n digits before the colon
TimePatternAt(s, i, n) ==
    /\ i + n + 2 <= Len(s)
    /\ WordBoundary(s, i)
    /\ \A k \in i..(i + n - 1) : IsDigit(s[k])
    /\ s[i + n] = ":"
    /\ IsDigit(s[i + n + 1]) /\ IsDigit(s[i + n + 2])
    /\ WordBoundary(s, i + n + 3)

\* re.search(r'\b(\d{1,2}:\d{2})\b', s): group(1) of the leftmost match (two
\* digits tried before one), or None
re_search_time(s) ==
    LET at == {i \in 1..Len(s) : TimePatternAt(s, i, 2) \/ TimePatternAt(s, i, 1)}
    IN  IF at = {} THEN None
        ELSE LET i == CHOOSE x \in at : \A y \in at : x <= y
                 n == IF TimePatternAt(s, i, 2) THEN 2 ELSE 1
             IN  SubSeq(s, i, i + n + 2)

\* lines 1314-1323: the time a booking button shows, or None when the button
\* has no text or no time in it
extracted_time(link_text) ==
    IF link_text = None \/ link_text = <<>> THEN None
    ELSE re_search_time(strip(collapse_whitespace(link_text)))

\* the lanes in ascending order
lane_priority_Ascending == <<1, 2, 3, 4>>

\* line 1286
lane_priority == <<2, 3, 4, 1>>

\* the a.bookButton elements a lane may hold: the time of the slot and the
\* text the page shows for it
ButtonPool ==
    << [time |-> <<"1","4",":","0","0">>, link_text |-> <<"1","4",":","0","0">>],
       [time |-> <<"1","4",":","3","0">>,
        link_text |-> <<"\n"," "," ","1","4",":","3","0","\n"," ">>],
       [time |-> None, link_text |-> None] >>

LaneButtons == UNION {[1..n -> 1..Len(ButtonPool)] : n \in 0..MaxSlots}
\* the page holds a container for each of the four lanes, or lacks the last
LanePages == UNION {[1..n -> LaneButtons] : n \in 3..4}
RequestedTimes == {<<"1","4",":","0","0">>, <<"1","4",":","3","0">>}

InitLanes ==
    /\ time_slot_inners \in LanePages
    /\ requested_time \in RequestedTimes
    /\ lane_idx = 1 /\ button_idx = 1 /\ slot_booked = FALSE /\ clicks = <<>>
    /\ lanes_obtained = <<>>
    /\ lane_pc = "lanes"
    /\ WindowIdle
    /\ SwimIdle
    /\ ParseVarsIdle
    /\ RunVarsIdle
    /\ MailVarsIdle
    /\ SessionVarsIdle

\* lines 1311-1332: one booking button of the lane is examined; a button
\* showing the requested time is clicked, and a click that raises is skipped
CheckButton ==
    /\ lane_pc = "lanes"
    /\ lane_idx <= Len(lane_priority)
    /\ Len(time_slot_inners) >= lane_priority[lane_idx]
    /\ button_idx <= Len(time_slot_inners[lane_priority[lane_idx]])
    /\ LET lane_num == lane_priority[lane_idx]
           button == ButtonPool[time_slot_inners[lane_num][button_idx]]
       IN  IF extracted_time(button.link_text) # None
              /\ extracted_time(button.link_text) = requested_time
           THEN \E raised \in BOOLEAN :
                   /\ clicks' = Append(clicks, [lane |-> lane_num, button |-> button_idx,
                                                raised |-> raised])
                   /\ slot_booked' = ~raised
                   /\ lanes_obtained' = IF raised THEN lanes_obtained
                                        ELSE Append(lanes_obtained, lane_num)
                   /\ lane_pc' = IF raised THEN "lanes" ELSE "selected"
                   /\ button_idx' = IF raised THEN button_idx + 1 ELSE button_idx
           ELSE /\ button_idx' = button_idx + 1
                /\ UNCHANGED <<clicks, slot_booked, lane_pc, lanes_obtained>>
    /\ UNCHANGED <<time_slot_inners, requested_time, lane_idx, window_vars, swim_vars,
                   parse_vars, run_vars, mail_vars, session_vars>>

\* lines 1293-1340: the lane has no container or no further button
NextLane ==
    /\ lane_pc = "lanes"
    /\ lane_idx <= Len(lane_priority)
    /\ IF Len(time_slot_inners) >= lane_priority[lane_idx]
       THEN button_idx > Len(time_slot_inners[lane_priority[lane_idx]])
       ELSE TRUE
    /\ lane_idx' = lane_idx + 1 /\ button_idx' = 1
    /\ UNCHANGED <<time_slot_inners, requested_time, slot_booked, clicks, lane_pc,
                   lanes_obtained, window_vars, swim_vars, parse_vars, run_vars, mail_vars, session_vars>>

\* lines 1342-1344: no slot was booked in any lane, return False
NoSlotReturn ==
    /\ lane_pc = "lanes"
    /\ lane_idx > Len(lane_priority)
    /\ ~slot_booked
    /\ lane_pc' = "failed"
    /\ UNCHANGED <<time_slot_inners, requested_time, lane_idx, button_idx, slot_booked,
                   clicks, lanes_obtained, window_vars, swim_vars, parse_vars, run_vars, mail_vars, session_vars>>

\* sequence s without its element at position i
RemoveAt(s, i) == [k \in 1..(Len(s) - 1) |-> IF k < i THEN s[k] ELSE s[k + 1]]

\* line 1747, called for the next entry of the same slot: the portal has
\* taken the slot just booked off the page, and the selection starts again
NextSwimEntry ==
    /\ lane_pc = "selected"
    /\ Len(lanes_obtained) < MaxSwimEntries
    /\ LET c == clicks[Len(clicks)]
       IN  time_slot_inners' =
               [time_slot_inners EXCEPT ![c.lane] = RemoveAt(@, c.button)]
    /\ lane_idx' = 1 /\ button_idx' = 1 /\ slot_booked' = FALSE /\ clicks' = <<>>
    /\ lane_pc' = "lanes"
    /\ UNCHANGED <<requested_time, lanes_obtained, window_vars, swim_vars, parse_vars,
                   run_vars, mail_vars, session_vars>>

NextLanes == CheckButton \/ NextLane \/ NoSlotReturn \/ NextSwimEntry

SpecLanes == InitLanes /\ [][NextLanes]_vars

(***************************************************************************)
(* Claims on the slot selection                                            *)
(***************************************************************************)
\* position of a lane in the order in which the lanes are tried
PriorityRank(lane_num) == CHOOSE k \in 1..4 : <<2, 3, 4, 1>>[k] = lane_num

\* the slots of the page that offer the requested time, as <<lane, button>>
Offering ==
    {s \in (1..Len(time_slot_inners)) \X (1..MaxSlots + 1) :
        /\ s[2] <= Len(time_slot_inners[s[1]])
        /\ ButtonPool[time_slot_inners[s[1]][s[2]]].time = requested_time}

\* slot s is tried before slot t
TriedBefore(s, t) ==
    \/ PriorityRank(s[1]) < PriorityRank(t[1])
    \/ s[1] = t[1] /\ s[2] < t[2]

ClickedOk == {k \in 1..Len(clicks) : ~clicks[k].raised}
SlotOf(c) == <<c.lane, c.button>>

Peter == <<"p","e","t","e","r">>
Adrienne == <<"a","d","r","i","e","n","n","e">>
LastEvaluated == evaluated[Len(evaluated)]
HasEvent(what) == \E k \in 1..Len(log) : log[k].ev = what

\* C12: no exception escapes the per-entry loop (a run raises only before
\* the loop, on missing configuration) and, whatever happened to the entries
\* before it, every entry of the schedule is evaluated in order and, when
\* due, taken up (its bot is constructed and, unless that or the launch of
\* the browser raises, a session is opened for it); a run that returns has
\* evaluated every entry.
C12_FailureNeverBlocksOthers ==
    /\ pc = "raised" => (evaluated = <<>> /\ schedule = <<>> /\ log = <<>>)
    /\ pc \in {"launch", "login", "book", "close"} =>
          (Len(evaluated) = idx /\ idx <= Len(schedule))
    /\ pc = "loop" => (Len(evaluated) = idx - 1 /\ idx <= Len(schedule) + 1)
    /\ pc \in {"returned", "exited"} => Len(evaluated) = Len(schedule)
    /\ evaluated # <<>> =>
          /\ LastEvaluated.row = schedule[Len(evaluated)].row_num
          /\ LastEvaluated.due =
                 _is_booking_time(schedule[Len(evaluated)], current_time).should_book
          /\ LastEvaluated.due =>
                 /\ log # <<>> /\ log[1].ev = "due" /\ log[1].row = LastEvaluated.row
                 /\ (pc \notin {"launch"} /\ ~HasEvent("error")) => HasEvent("session")

\* C12 witness: the first entry was due and constructing its bot raised; the
\* second entry was then taken up and its booking action called
C12_Witness ==
    /\ Len(evaluated) = 2 /\ evaluated[1].due
    /\ ~bot_constructs(schedule[1].user)
    /\ \E k \in 1..Len(log) : log[k].ev = "call" /\ log[k].row = schedule[2].row_num

\* C13: the cron process, once ended, has exit status 0: after a run that
\* returned (bookings made, failed or none due) and after an exception
\* reached main (GYM_URL, the default user's credentials or the schedule
\* bucket missing).
C13_ExitCodeAlwaysZero ==
    /\ exit_code \in {<<>>, <<0>>}
    /\ pc = "exited" <=> exit_code = <<0>>

\* C13 witness: the process has ended after the ValueError of a missing
\* schedule bucket reached main
C13_Witness ==
    /\ pc = "exited" /\ exit_code = <<0>>
    /\ env.s3 = "no_bucket" /\ schedule = <<>>

\* the run is not in the middle of an entry: log holds all that was done for
\* the latest due entry
EntryFinished == log # <<>> /\ pc \in {"loop", "returned", "exited"}
Succeeded == \E k \in 1..Len(log) : log[k].ev = "result" /\ log[k].success
EmailsMatchEntry ==
    \A k \in 1..Len(log) :
        log[k].ev = "email" =>
            /\ log[k].row = schedule_entry.row_num \/ ~booking_time.should_book
            /\ log[k].row = log[1].row /\ log[k].user = log[1].user
            /\ \E i \in 1..Len(schedule) :
                  /\ schedule[i].row_num = log[k].row
                  /\ log[k].instructor = schedule[i].instructor
                  /\ log[k].time = schedule[i].time
            /\ log[k].target_date = strftime_date(booking_time.target_date)

\* C14 as claimed: a due entry whose attempt did not end in success (login
\* failure, booking action returning False, or an exception while the entry
\* is processed) has caused exactly one failure notification, carrying the
\* entry's user, spec, time and target date; a successful one has caused none.
C14_EveryFailureNotifiedOnce ==
    /\ EmailsMatchEntry
    /\ EntryFinished =>
          Count(log, "email") = (IF Succeeded THEN 0 ELSE 1)

\* C15: a notification never raises, whether the mail is sent, the mail
\* configuration is missing or a statement of the sending raises: the inner
\* except is not entered for it ("Booking System Error" is never notified),
\* the result recorded before it stays, the session is closed by the finally
\* clause and the run goes on to the next entry.
C15_NotifyFailuresSwallowed ==
    /\ \A m \in MailOutcomes : ~_send_booking_failure_email(m).raised
    /\ ~HasEvent("error_notify")
    /\ \A k \in 1..Len(log) :
          log[k].ev = "email" =>
              /\ log[k].reason # "Booking System Error"
              /\ log[k - 1].ev \in {"login_failed", "result"}
              /\ log[k - 1].ev = "result" => ~log[k - 1].success
              /\ pc \in {"close", "loop", "returned", "exited"}
              /\ pc = "close" => (k = Len(log) /\ browser_open)
              /\ pc # "close" => (log[Len(log)].ev = "close" /\ ~browser_open)

\* C15 witness: the notification of the first entry's failed booking met an
\* exception while being sent; the second entry was evaluated after it and
\* the run returned
C15_Witness ==
    /\ pc = "returned" /\ Len(evaluated) = 2 /\ evaluated[1].due /\ ~evaluated[2].due
    /\ \E k \in 1..Len(log) :
          /\ log[k].ev = "email" /\ log[k].mail = "exception"
          /\ log[k].row = schedule[1].row_num
          /\ log[k - 1].ev = "result"

\* C16: at most one browser session is open, and none while the loop is
\* between two entries or the run is over; a due entry that is taken up opens
\* at most one session of its own, logs in with the credentials of its own
\* user, and its session is closed when the entry is left, whatever the
\* outcome (success, failure, login failure, exception).
C16_OneSessionAtATime ==
    /\ browser_open => pc \in {"login", "book", "close"}
    /\ pc \in {"login", "book", "close"} =>
          /\ browser_open
          /\ Count(log, "session") = 1 /\ Count(log, "close") = 0
    /\ \A k \in 1..Len(log) :
          /\ log[k].row = log[1].row
          /\ log[k].ev \in {"login_ok", "login_failed"} =>
                /\ log[k].credentials_of = log[k].user
                /\ \E j \in 1..(k - 1) : log[j].ev = "session"
    /\ Count(log, "session") <= 1
    /\ EntryFinished => Count(log, "close") = Count(log, "session")

\* C16 witness: the first entry's session is over (its booking was made for
\* its own user), and the second entry, of another user, is logged in on a
\* session of its own
C16_Witness ==
    /\ pc = "book" /\ browser_open
    /\ Len(evaluated) = 2 /\ evaluated[1].due /\ bookings_made = 1
    /\ schedule[1].user # schedule[2].user
    /\ log[Len(log)].ev = "login_ok" /\ log[Len(log)].credentials_of = schedule[2].user

\* C17 as claimed: a booking action returns success, and the run counts a
\* booking as made, only if the portal showed a success indicator after the
\* final confirmation click; without an indicator the attempt is a failure.
C17_SuccessOnlyWhenPortalConfirms ==
    /\ \A k \in 1..Len(log) :
          log[k].ev = "result" => (log[k].success <=> log[k].portal = "success_shown")
    /\ EntryFinished => (Succeeded <=> \E k \in 1..Len(log) :
                                          log[k].ev = "result" /\ log[k].portal = "success_shown")

\* the fields of a schedule row as written, and as the parser keeps them
RowFields(k) == split(RunPool[k].text, ",")
CallMatchesRow(c, k) ==
    /\ Len(RowFields(k)) = 4
    /\ c.user = lower(strip(RowFields(k)[1]))
    /\ c.time = strip(RowFields(k)[4])
    /\ LET spec == strip(RowFields(k)[2])
       IN  IF _parse_swim_instructor(spec).is_swim
           THEN /\ c.action = "book_swim_lane"
                /\ c.duration = << _parse_swim_instructor(spec).duration >>
           ELSE /\ c.action = "book_class"
                /\ c.instructor = spec

\* what C18 states of the booking action called for a due entry: at most one
\* call; book_swim_lane with the parsed duration for a swim spec, otherwise
\* book_class with the spec; target date = today + 8 days; spec and time as
\* in the schedule row (surrounding whitespace trimmed by the parser)
CallAsScheduled ==
    /\ Count(log, "call") <= 1
    /\ \A k \in 1..Len(log) :
          log[k].ev = "call" =>
              /\ log[1].ev = "due" /\ log[k].row = log[1].row
              /\ log[k].target_date = Midnight(current_time.day + 8)
              /\ \E j \in 1..Len(source.rows) : CallMatchesRow(log[k], source.rows[j])

\* C18 as claimed: every due entry is dispatched to a booking action exactly
\* once within its run.
C18_DueEntryDispatchedExactlyOnce ==
    /\ CallAsScheduled
    /\ EntryFinished => Count(log, "call") = 1

\* C18 amended: a due entry is dispatched at most once, and exactly once when
\* its bot was constructed, its browser launched and its login succeeded; a
\* failed login or an exception before it leaves the entry without any
\* booking action.
C18_DueEntryDispatchedOnceAfterLogin ==
    /\ CallAsScheduled
    /\ EntryFinished => Count(log, "call") = Count(log, "login_ok")
    /\ pc = "close" => Count(log, "call") = Count(log, "login_ok")
    /\ \A k \in 1..Len(log) :
          log[k].ev = "call" => (k > 1 /\ log[k - 1].ev = "login_ok")

\* C18 witness: the row peter,Mari,saturday,08:15, evaluated in its window on
\* a day whose date + 8 is a Saturday, was dispatched to book_class for
\* 'Mari' at '08:15'
C18_Witness ==
    /\ pc = "close" /\ weekday(current_time.day + 8) = 5
    /\ \E k \in 1..Len(log) :
          /\ log[k].ev = "call" /\ log[k].action = "book_class"
          /\ log[k].user = Peter
          /\ log[k].instructor = <<"M","a","r","i">>
          /\ log[k].time = <<"0","8",":","1","5">>
          /\ CallMatchesRow(log[k], 1)

\* the entry the log is about
LoggedEntry == EntryOfRow(log[1].row)
SharesResource(i, j) ==
    /\ schedule[i].instructor = schedule[j].instructor
    /\ schedule[i].time = schedule[j].time
    /\ schedule[i].day_of_week = schedule[j].day_of_week

C19_DispatchIgnoresConflicts ==
    log # <<>> =>
       /\ \A k \in 1..Len(log) :
             log[k].ev = "call" =>
                 log[k] = booking_call(LoggedEntry,
                                       _parse_swim_instructor(LoggedEntry.instructor),
                                       Midnight(current_time.day + 8))
       /\ HasEvent("advisory") =>
             /\ log[2].ev = "advisory" /\ Count(log, "advisory") = 1
             /\ pc \in {"launch", "login", "book", "close"} =>
                   (log[1].row = schedule[idx].row_num /\ Len(evaluated) = idx)
             /\ pc \in {"loop", "returned", "exited"} =>
                   (HasEvent("error") \/ HasEvent("session"))
             /\ HasEvent("login_ok") /\ pc \notin {"book"} => HasEvent("call")

\* C19: the conflict scan is advisory: a due entry that shares its spec, time
\* and day with other loaded entries is taken up at its own place in the
\* schedule order and dispatched to the action and with the arguments that
\* the entry alone determines, and the scan leaves the schedule as loaded
\* (it changes only when a new run loads it).
C19_ConflictScanIsAdvisory ==
    /\ []C19_DispatchIgnoresConflicts
    /\ [][schedule' # schedule => pc \in {"idle", "exited"}]_vars

\* C19 witness: two loaded entries of different users share spec, time and day; the advisory
\* was logged for the second one and its booking action called all the same
C19_Witness ==
    /\ Len(evaluated) = 2 /\ Len(schedule) = 2 /\ SharesResource(1, 2)
    /\ schedule[1].user # schedule[2].user
    /\ log # <<>> /\ log[1].row = schedule[2].row_num
    /\ HasEvent("advisory") /\ HasEvent("call")

\* the users with an entry in the loaded schedule for the resource of entry e
UsersOfResource(e) ==
    { schedule[i].user : i \in { j \in 1..Len(schedule) :
                                   /\ schedule[j].instructor = e.instructor
                                   /\ schedule[j].time = e.time
                                   /\ schedule[j].day_of_week = e.day_of_week } }
AdvisoryEvents == SelectSeq(log, LAMBDA x : x.ev = "advisory")

OfferingLanes == {s[1] : s \in Offering}
Abs(n) == IF n < 0 THEN -n ELSE n
\* the lanes that offered the requested time before the last two bookings:
\* the slot of the earlier one is off the page by now
OfferedBeforeLastTwo ==
    OfferingLanes \cup {lanes_obtained[Len(lanes_obtained) - 1],
                        lanes_obtained[Len(lanes_obtained)]}

\* C21: two consecutive bookings of the same swim slot, made from a page on
\* which at least two lanes offered the requested time, obtain two different
\* lanes whose numbers differ by 1.
C21_ConsecutiveBookingsAdjacent ==
    (Len(lanes_obtained) >= 2 /\ Cardinality(OfferedBeforeLastTwo) >= 2) =>
        Abs(lanes_obtained[Len(lanes_obtained)]
              - lanes_obtained[Len(lanes_obtained) - 1]) = 1

(***************************************************************************)
(* _send_booking_failure_email and the settings it reads (SpecMail)        *)
(***************************************************************************)
\* the names of the settings: the three the notifier reads, the three the
\* notification test script names, and the port
EnvNames == {"SENDER_EMAIL", "SENDER_PASSWORD", "RECIPIENT_EMAIL",
             "SMTP_USER", "SMTP_PASSWORD", "NOTIFICATION_EMAIL", "SMTP_PORT"}
\* a setting is unset, set to the empty string, or set to a value
SettingValues == {None, <<>>, <<"x">>}
PortValues == {None, <<"5","8","7">>, <<"s","m","t","p">>}
Environs ==
    {e \in [EnvNames -> SettingValues \cup PortValues] :
        /\ e["SMTP_PORT"] \in PortValues
        /\ \A n \in EnvNames \ {"SMTP_PORT"} : e[n] \in SettingValues}

\* os.getenv(name, default)
getenv(name, default) == IF environ[name] = None THEN default ELSE environ[name]
\* truth value of a str or None
Truthy(v) == v # None /\ v # <<>>

\* lines 366-368
email_settings ==
    [smtp_user |-> getenv("SENDER_EMAIL", None),
     smtp_password |-> getenv("SENDER_PASSWORD", None),
     notification_email |-> getenv("RECIPIENT_EMAIL", None)]

InitMail ==
    /\ environ \in Environs
    /\ mail_pc = "called" /\ mail_log = <<>>
    /\ WindowIdle
    /\ SwimIdle
    /\ ParseVarsIdle
    /\ RunVarsIdle
    /\ LaneVarsIdle
    /\ SessionVarsIdle

\* lines 364-375: the settings are read; int() of a malformed port raises
\* into the except clause; a missing setting ends the call
ReadSettings ==
    /\ mail_pc = "called"
    /\ IF ~int(getenv("SMTP_PORT", <<"5","8","7">>)).ok
       THEN mail_pc' = "returned" /\ mail_log' = <<"failed">>
       ELSE IF \/ ~Truthy(email_settings.smtp_user)
               \/ ~Truthy(email_settings.smtp_password)
               \/ ~Truthy(email_settings.notification_email)
            THEN mail_pc' = "returned" /\ mail_log' = <<"skipped">>
            ELSE mail_pc' = "composed" /\ mail_log' = <<>>
    /\ UNCHANGED <<environ, window_vars, swim_vars, parse_vars, run_vars, lane_vars, session_vars>>

\* lines 411-419: the message goes to the SMTP server; whatever raises there
\* is caught at line 421
SendMail ==
    /\ mail_pc = "composed"
    /\ \E smtp_raises \in BOOLEAN :
          mail_log' = IF smtp_raises THEN <<"smtp", "failed">> ELSE <<"smtp", "sent">>
    /\ mail_pc' = "returned"
    /\ UNCHANGED <<environ, window_vars, swim_vars, parse_vars, run_vars, lane_vars, session_vars>>

NextMail == ReadSettings \/ SendMail

SpecMail == InitMail /\ [][NextMail]_vars

\* the three settings the test script tells the operator to set
SmtpNamesConfigured ==
    /\ Truthy(environ["SMTP_USER"])
    /\ Truthy(environ["SMTP_PASSWORD"])
    /\ Truthy(environ["NOTIFICATION_EMAIL"])

\* C22: with SMTP_USER, SMTP_PASSWORD and NOTIFICATION_EMAIL all configured
\* the notifier attempts to send the message instead of skipping it, and it
\* skips only when one of the three is missing.
C22_EnabledBySmtpSettings ==
    mail_pc = "returned" =>
        /\ (SmtpNamesConfigured /\ int(getenv("SMTP_PORT", <<"5","8","7">>)).ok)
               => mail_log[1] = "smtp"
        /\ mail_log = <<"skipped">> => ~SmtpNamesConfigured

(***************************************************************************)
(* Further claims on the runs                                              *)
(***************************************************************************)
LoginFailed == HasEvent("login_failed")

\* C23: when login fails for a due entry no booking action is called for it,
\* the counter of bookings made stays as it was, the browser session is
\* closed by the finally clause, and the loop goes on to the next entry.
C23_LoginFailureSkipsBooking ==
    /\ [](LoginFailed =>
            /\ ~HasEvent("call") /\ ~HasEvent("result")
            /\ pc \in {"close", "loop", "returned", "exited"}
            /\ pc # "close" =>
                  /\ ~browser_open /\ HasEvent("close")
                  /\ Len(evaluated) = IF pc = "loop" THEN idx - 1 ELSE Len(schedule))
    /\ [][(LoginFailed /\ LoginFailed') => bookings_made' = bookings_made]_vars

\* C23 witness: the login of the first entry failed and the run went on to
\* evaluate the second entry
C23_Witness ==
    /\ LoginFailed /\ log[1].row = schedule[1].row_num
    /\ Len(evaluated) = 2 /\ ~browser_open /\ bookings_made = 0

\* entry e is due at the instant now: the weekday 8 days after now's date is
\* the entry's, and now is 0 to 14 minutes past the entry's time of day
DueAt(e, now) ==
    LET p == split(e.time, ":")
        since == (now.hour * 60 + now.minute) - (int(p[1]).value * 60 + int(p[2]).value)
    IN  /\ day_names[((now.day + 8 + 6) % 7) + 1] = e.day_of_week
        /\ since >= 0 /\ since < 15
\* the instant sampled by run r, the runs being period minutes apart
TimeOfRun(r) == FromSeconds(ToSeconds(current_time) - (run_no - r) * period * 60)
\* what a run at the instant now dispatches of the first n entries
RECURSIVE DispatchOf(_, _)
DispatchOf(n, now) ==
    IF n = 0 THEN <<>>
    ELSE DispatchOf(n - 1, now) \o
         (IF DueAt(schedule[n], now) THEN << <<schedule[n].row_num, now.day + 8>> >>
          ELSE <<>>)
RECURSIVE DispatchOfRuns(_)
DispatchOfRuns(r) ==
    IF r = 0 THEN <<>>
    ELSE DispatchOfRuns(r - 1) \o DispatchOf(Len(schedule), TimeOfRun(r))

\* C26: what a run dispatches is a function of the loaded schedule and of the
\* run's own now: over all the runs so far, whatever happened to the entries
\* of the earlier ones, the entries dispatched are those due at each run's
\* now, so that runs inside one entry's window each dispatch it.
C26_DispatchDependsOnScheduleAndNowOnly ==
    run_no >= 1 =>
        /\ \A k \in 1..Len(evaluated) : evaluated[k].due = DueAt(schedule[k], current_time)
        /\ dispatched = DispatchOfRuns(run_no - 1) \o DispatchOf(Len(evaluated), current_time)

\* C26 witness: an entry was dispatched by one run, which made its booking,
\* and is dispatched again by the next run inside its window
C26_Witness ==
    /\ Len(dispatched) = 2 /\ dispatched[1] = dispatched[2]
    /\ Len(schedule) = 1 /\ HasEvent("call")

\* C28: every entry of a run is evaluated against the instant sampled at the
\* start of the run: its eligibility and its target date are those of that
\* instant, however much wall-clock time the attempts for earlier entries
\* took, so that an entry due at the start of the run is dispatched although
\* its window is over by the time the loop reaches it.
C28_NowSampledOncePerRun ==
    /\ \A k \in 1..Len(evaluated) : evaluated[k].due <=> DueAt(schedule[k], current_time)
    /\ (evaluated # <<>> /\ pc # "raised") =>
          /\ booking_time.should_book <=> DueAt(schedule[Len(evaluated)], current_time)
          /\ booking_time.target_date.day = current_time.day + 8
    /\ elapsed = SessionMinutes * Len(SelectSeq(evaluated, LAMBDA x : x.due))

\* C28 witness: the second entry was due at the start of the run; the attempt
\* for the first took the wall clock past the end of its window, and its
\* booking action is called all the same
C28_Witness ==
    /\ Len(evaluated) = 2 /\ evaluated[1].due /\ evaluated[2].due
    /\ ~DueAt(schedule[2], FromSeconds(ToSeconds(current_time) + SessionMinutes * 60))
    /\ \E k \in 1..Len(log) : log[k].ev = "call" /\ log[k].row = schedule[2].row_num

FetchFails == env.s3 \in {"unreadable", "no_boto3"}
\* the state of a run that found no entry to process
EndsAsEmptySchedule ==
    /\ schedule = <<>> /\ evaluated = <<>> /\ dispatched = <<>> /\ log = <<>>
    /\ ~browser_open /\ bookings_made = 0

\* C29: when fetching the schedule object fails the schedule is empty and the
\* run returns normally, as a run with an empty schedule does: it evaluates
\* and dispatches nothing and sends no notification; with the bucket setting
\* missing the run raises instead, and never returns.
C29_FetchFailureIsEmptySchedule ==
    (run_no >= 1 /\ bot_constructs(<<"p","e","t","e","r">>)) =>
        /\ FetchFails =>
              (EndsAsEmptySchedule /\ pc \in {"returned", "exited"} /\ exit_code \in {<<>>, <<0>>})
        /\ env.s3 = "no_bucket" => (EndsAsEmptySchedule /\ pc \in {"raised", "exited"})
        /\ (env.s3 = "ok" /\ schedule = <<>>) =>
              (EndsAsEmptySchedule /\ pc \in {"returned", "exited"} /\ exit_code \in {<<>>, <<0>>})

\* C29 witness: the object holds a valid entry that is due, the fetch fails
\* and the run has returned
C29_Witness ==
    /\ FetchFails /\ pc = "returned" /\ run_no = 2
    /\ _parse_schedule_content(content) # <<>>
    /\ DueAt(_parse_schedule_content(content)[1], current_time)

(***************************************************************************)
(* _is_booking_time under periodic invocation around an entry's time       *)
(* (SpecPeriodic)                                                          *)
(***************************************************************************)
\* the first invocation followed is less than one period before the entry's
\* time on anchor_day, at a whole or a half minute
FirstInvocations(p) ==
    { FromSeconds(ToSeconds(ScheduledInstant) - p * 60 + m * 60 + sec) :
          m \in 0..(p - 1), sec \in {0, 30} }

InitPeriodic ==
    /\ schedule_entry \in WindowEntries
    /\ anchor_day \in 2..(MaxDays + 1)
    /\ day_names[weekday(anchor_day + BookingAdvanceDays) + 1] = schedule_entry.day_of_week
    /\ period \in Periods
    /\ current_time \in FirstInvocations(period)
    /\ booking_time = Nothing
    /\ env = Nothing /\ run_no = 0 /\ pc = "idle" /\ schedule = <<>>
    /\ idx = 0 /\ browser_open = FALSE /\ bookings_made = 0 /\ log = <<>>
    /\ dispatched = <<>> /\ evaluated = <<>> /\ exit_code = <<>> /\ elapsed = 0
    /\ SwimIdle
    /\ ParseVarsIdle
    /\ LaneVarsIdle
    /\ MailVarsIdle
    /\ SessionVarsIdle

\* lines 1671-1679 in the invocation at current_time: the entry (row 2 of its
\* file) is evaluated and, when due, dispatched
Invoke ==
    /\ booking_time = Nothing
    /\ booking_time' = _is_booking_time(schedule_entry, current_time)
    /\ run_no' = run_no + 1
    /\ dispatched' = IF booking_time'.should_book
                     THEN Append(dispatched, <<2, booking_time'.target_date.day>>)
                     ELSE dispatched
    /\ UNCHANGED <<current_time, schedule_entry, anchor_day, swim_vars, parse_vars, lane_vars,
                   mail_vars, session_vars, env, period, pc, schedule, idx, browser_open, bookings_made,
                   log, evaluated, exit_code, elapsed>>

\* the scheduler starts the next invocation one period later
NextInvocation ==
    /\ booking_time # Nothing
    /\ OffsetSeconds < MaxOffsetMin * 60
    /\ current_time' = FromSeconds(ToSeconds(current_time) + period * 60)
    /\ booking_time' = Nothing
    /\ UNCHANGED <<schedule_entry, anchor_day, swim_vars, parse_vars, lane_vars, mail_vars, session_vars,
                   run_vars>>

NextPeriodic == Invoke \/ NextInvocation

SpecPeriodic == InitPeriodic /\ [][NextPeriodic]_vars

\* C27: with invocations a fixed period of at most 15 minutes apart, an entry
\* whose day_of_week is that of anchor_day + 8 is dispatched by at least one
\* invocation on anchor_day: once an invocation 15 minutes or more after the
\* entry's time has been made, an earlier one has dispatched the entry.
C27_NoOpportunityMissed ==
    (booking_time # Nothing /\ period <= 15 /\ OffsetSeconds >= 15 * 60)
        => \E k \in 1..Len(dispatched) : dispatched[k] = <<2, anchor_day + 8>>

(***************************************************************************)
(* One browser session: login, then book_swim_lane or book_class, step by  *)
(* step (SpecSession)                                                      *)
(***************************************************************************)
\* sub in s (str.__contains__)
contains(s, sub) ==
    \E k \in 0..(Len(s) - Len(sub)) : SubSeq(s, k + 1, k + Len(sub)) = sub

Str_waiting == <<"w","a","i","t","i","n","g">>
Str_full == <<"f","u","l","l">>
Str_book == <<"b","o","o","k">>

\* what the portal does during login: page.goto raises; a field is not found;
\* waiting for the page after the submit raises; the page after the submit
\* shows the h1 'Members Area', or does not
LoginOutcomes == {"goto_raises", "no_username_field", "no_password_field",
                  "load_raises", "members_area", "no_indicator"}

\* lines 435-522: what login returns
login(outcome) == outcome \in {"members_area", "no_indicator"}

\* lines 843-865, a button whose "book" is tested before "waiting" and "full"
button_action_BookFirst(button) ==
    IF button = Nothing THEN "no_button"
    ELSE IF ~Truthy(button.text) THEN "skip"
    ELSE LET button_lower == lower(button.text)
         IN  IF contains(button_lower, Str_book)
             THEN IF button.visible THEN "click" ELSE "skip"
             ELSE IF contains(button_lower, Str_waiting) THEN "return_false"
             ELSE IF contains(button_lower, Str_full) THEN "return_false"
             ELSE "skip"

\* lines 837-867: what book_class does with the a.bookClassButton of the
\* class container (Nothing: the container has none)
button_action(button) ==
    IF button = Nothing THEN "no_button"
    ELSE IF ~Truthy(button.text) THEN "skip"
    ELSE LET button_lower == lower(button.text)
         IN  IF contains(button_lower, Str_waiting) THEN "return_false"
             ELSE IF contains(button_lower, Str_full) THEN "return_false"
             ELSE IF contains(button_lower, Str_book)
                  THEN IF button.visible THEN "click" ELSE "skip"
                  ELSE "skip"

\* the first container of the page whose text holds the instructor and the
\* time (lines 820-825 take it from a fresh query of the page)
first_match(cs) == CHOOSE j \in 1..Len(cs) : cs[j].matches /\ \A i \in 1..(j - 1) : ~cs[i].matches

\* lines 732-874: the loop over the class containers from container i on,
\* evs being the clicks and inspections made so far
RECURSIVE class_loop(_, _, _)
class_loop(cs, i, evs) ==
    IF i > Len(cs) THEN [events |-> evs, outcome |-> "not_booked"]
    ELSE IF ~cs[i].matches THEN class_loop(cs, i + 1, evs)
    ELSE IF ~cs[i].card
         THEN class_loop(cs, i + 1, Append(evs, [act |-> "card_failed", container |-> i]))
    ELSE LET j == first_match(cs)
             act == button_action(cs[j].button)
             evs1 == evs \o << [act |-> "card", container |-> i],
                               [act |-> act, container |-> j] >>
         IN  IF act = "return_false" THEN [events |-> evs1, outcome |-> "returned_false"]
             ELSE IF act = "click" THEN [events |-> evs1, outcome |-> "booked"]
             ELSE class_loop(cs, i + 1, evs1)

\* the buttons a class container may hold
Button(text, visible) == [text |-> text, visible |-> visible]
ContainerPool ==
    << [matches |-> FALSE, card |-> TRUE, button |-> Button(<<"B","o","o","k">>, TRUE)],
       [matches |-> TRUE, card |-> TRUE, button |-> Button(<<"B","o","o","k">>, TRUE)],
       [matches |-> TRUE, card |-> TRUE,
        button |-> Button(<<"J","o","i","n"," ","W","a","i","t","i","n","g"," ","L","i","s","t">>, TRUE)],
       [matches |-> TRUE, card |-> TRUE,
        button |-> Button(<<"C","l","a","s","s"," ","F","u","l","l">>, TRUE)],
       [matches |-> TRUE, card |-> TRUE,
        button |-> Button(<<"B","o","o","k"," ","W","a","i","t","i","n","g"," ","L","i","s","t">>, TRUE)],
       [matches |-> TRUE, card |-> TRUE,
        button |-> Button(<<"F","u","l","l","y"," ","B","o","o","k","e","d">>, TRUE)],
       [matches |-> TRUE, card |-> TRUE, button |-> Button(<<"B","o","o","k">>, FALSE)],
       [matches |-> TRUE, card |-> TRUE, button |-> Nothing],
       [matches |-> TRUE, card |-> FALSE, button |-> Button(<<"B","o","o","k">>, TRUE)],
       [matches |-> TRUE, card |-> TRUE, button |-> Button(<<"C","a","n","c","e","l">>, TRUE)],
       [matches |-> TRUE, card |-> TRUE, button |-> Button(None, TRUE)] >>

MaxContainers == 2     \* at most MaxContainers class containers on the page
ClassPages ==
    UNION { [1..n -> {ContainerPool[k] : k \in 1..Len(ContainerPool)}] : n \in 0..MaxContainers }

InitSession ==
    /\ booking_kind \in {"swim", "class"}
    /\ class_containers \in ClassPages
    /\ booking_kind = "swim" => class_containers = <<>>
    /\ sess_pc = "login" /\ steps = <<>> /\ class_events = <<>> /\ returns = <<>>
    /\ WindowIdle
    /\ SwimIdle
    /\ ParseVarsIdle
    /\ RunVarsIdle
    /\ LaneVarsIdle
    /\ MailVarsIdle

\* what a step of the session leaves alone
SessionFrame ==
    UNCHANGED <<booking_kind, class_containers, window_vars, swim_vars, parse_vars, run_vars,
                lane_vars, mail_vars>>

\* a step that the booking action gives up on when it is not achieved
\* (return False)
RequiredStep(from, intent, to) ==
    /\ sess_pc = from
    /\ \E achieved \in BOOLEAN :
          /\ steps' = Append(steps, [intent |-> intent, achieved |-> achieved])
          /\ sess_pc' = IF achieved THEN to ELSE "closed"
          /\ returns' = IF achieved THEN returns ELSE Append(returns, FALSE)
    /\ UNCHANGED class_events
    /\ SessionFrame

\* run_scheduled_bookings lines 1726-1745 with login, lines 435-522
DoLogin ==
    /\ sess_pc = "login"
    /\ \E outcome \in LoginOutcomes :
          /\ steps' = << [intent |-> "login", achieved |-> outcome = "members_area"] >>
          /\ returns' = << login(outcome) >>
          /\ sess_pc' = IF after_login(login(outcome)) = "book" THEN "navigate" ELSE "closed"
    /\ UNCHANGED class_events
    /\ SessionFrame

\* book_class lines 541-586, book_swim_lane lines 992-1038: the link to the
\* calendar or swim page, or the direct navigation
Navigate == RequiredStep("navigate", "navigate", IF booking_kind = "swim" THEN "date" ELSE "day")

\* book_swim_lane lines 1042-1112: the target date is in the date input
SwimSetDate == RequiredStep("date", "date", "dropdowns")

\* book_swim_lane lines 1115-1232: the duration and the time period are
\* selected, each attempted whatever the other did; without both, return False
SwimDropdowns ==
    /\ sess_pc = "dropdowns"
    /\ \E duration_selected \in BOOLEAN, period_selected \in BOOLEAN :
          /\ steps' = steps \o << [intent |-> "duration", achieved |-> duration_selected],
                                  [intent |-> "period", achieved |-> period_selected] >>
          /\ sess_pc' = IF duration_selected /\ period_selected THEN "go" ELSE "closed"
          /\ returns' = IF duration_selected /\ period_selected THEN returns
                        ELSE Append(returns, FALSE)
    /\ UNCHANGED class_events
    /\ SessionFrame

\* book_swim_lane lines 1234-1264
SwimGo == RequiredStep("go", "go", "slot")

\* book_swim_lane lines 1285-1344: a slot of the requested time is clicked
SwimSlot == RequiredStep("slot", "slot", "next")

\* book_swim_lane lines 1346-1371
SwimNext == RequiredStep("next", "next", "terms")

\* book_class lines 588-658: the section of the target day is found, after
\* Next when it is not on the page shown first
ClassDay == RequiredStep("day", "day", "select")

\* book_class lines 660-874: the container loop
ClassSelect ==
    /\ sess_pc = "select"
    /\ LET r == class_loop(class_containers, 1, <<>>)
       IN  /\ class_events' = r.events
           /\ steps' = Append(steps, [intent |-> "class", achieved |-> r.outcome = "booked"])
           /\ sess_pc' = IF r.outcome = "booked" THEN "terms" ELSE "closed"
           /\ returns' = IF r.outcome = "booked" THEN returns ELSE Append(returns, FALSE)
    /\ SessionFrame

\* book_class lines 879-893, book_swim_lane lines 1373-1395: the terms
\* checkbox is checked when one of the selectors finds it; the action goes
\* on to the final button either way
AcceptTerms ==
    /\ sess_pc = "terms"
    /\ \E checkbox_found \in BOOLEAN :
          steps' = Append(steps, [intent |-> "terms", achieved |-> checkbox_found])
    /\ sess_pc' = "confirm"
    /\ UNCHANGED <<class_events, returns>>
    /\ SessionFrame

\* book_class lines 895-942, book_swim_lane lines 1397-1436: the final button
\* is clicked when found, and the page after it inspected
Confirm ==
    /\ sess_pc = "confirm"
    /\ \E portal \in PortalOutcomes :
          /\ steps' = Append(steps, [intent |-> "confirm", achieved |-> portal # "not_reached"])
          /\ returns' = Append(returns, IF booking_kind = "swim" THEN book_swim_lane(portal)
                                        ELSE book_class(portal))
    /\ sess_pc' = "closed"
    /\ UNCHANGED class_events
    /\ SessionFrame

NextSession ==
    \/ DoLogin \/ Navigate \/ SwimSetDate \/ SwimDropdowns \/ SwimGo \/ SwimSlot \/ SwimNext
    \/ ClassDay \/ ClassSelect \/ AcceptTerms \/ Confirm

SpecSession == InitSession /\ [][NextSession]_vars

(***************************************************************************)
(* Claims on the steps of a session                                        *)
(***************************************************************************)
Made(intent) == \E k \in 1..Len(steps) : steps[k].intent = intent /\ steps[k].achieved
Attempted(intent) == \E k \in 1..Len(steps) : steps[k].intent = intent

\* C24: login returns True only when the portal showed the 'Members Area'
\* indicator after the credentials were submitted, so that no step of a
\* booking action is made in a session whose login the portal did not
\* confirm.
C24_LoginTrueOnlyWhenConfirmed ==
    returns # <<>> =>
        /\ returns[1] => Made("login")
        /\ Attempted("navigate") => Made("login")

\* the place of a step among the intents of a booking attempt: navigate to
\* the booking page, locate the calendar day, locate the class or slot,
\* trigger the booking, accept the terms, confirm
IntentOf(step) ==
    CASE step \in {"navigate"} -> "navigate"
      [] step \in {"date", "day"} -> "locate_day"
      [] step \in {"duration", "period", "go"} -> "locate_slot"
      [] step \in {"slot", "next", "class"} -> "trigger"
      [] step \in {"terms"} -> "terms"
      [] step \in {"confirm"} -> "confirm"
      [] OTHER -> "login"
IntentOrder == <<"login", "navigate", "locate_day", "locate_slot", "trigger", "terms", "confirm">>
IntentRank(step) == CHOOSE n \in 1..Len(IntentOrder) : IntentOrder[n] = IntentOf(step)

\* C25: the steps of a booking attempt are made in the order of the intents,
\* and a step is made only when every step of an earlier intent was achieved:
\* a swim slot is clicked only after the date, the duration and the time
\* period were set and Go was clicked, and the final button is clicked only
\* after the terms checkbox was found and checked.
C25_IntentsInOrderEachAfterEarlier ==
    /\ \A j, k \in 2..Len(steps) :
          j < k => /\ IntentRank(steps[j].intent) <= IntentRank(steps[k].intent)
                   /\ (steps[k].achieved
                       /\ IntentRank(steps[j].intent) < IntentRank(steps[k].intent))
                          => steps[j].achieved
    /\ Made("slot") => (Made("date") /\ Made("duration") /\ Made("period") /\ Made("go"))
    /\ Made("confirm") => Made("terms")

\* the inspections of a button in the container loop
Inspected(act) == {k \in 1..Len(class_events) : class_events[k].act = act}
ButtonLower(k) == lower(class_containers[class_events[k].container].button.text)

\* C30: book_class clicks a class booking button only when its text contains
\* 'book', mentions neither 'waiting' nor 'full', and the button is visible;
\* on a button that mentions 'waiting' or 'full' it returns False at once: no
\* further container is tried and the terms and confirm steps are not made.
C30_NeverClicksWaitingOrFull ==
    /\ \A k \in Inspected("click") :
          /\ contains(ButtonLower(k), Str_book)
          /\ ~contains(ButtonLower(k), Str_waiting) /\ ~contains(ButtonLower(k), Str_full)
          /\ class_containers[class_events[k].container].button.visible
          /\ k = Len(class_events)
    /\ \A k \in Inspected("return_false") :
          /\ contains(ButtonLower(k), Str_waiting) \/ contains(ButtonLower(k), Str_full)
          /\ k = Len(class_events)
          /\ returns = <<TRUE, FALSE>> /\ sess_pc = "closed"
          /\ ~Attempted("terms") /\ ~Attempted("confirm")
    /\ \A k \in 1..Len(class_events) :
          LET b == class_containers[class_events[k].container].button
          IN  (class_events[k].act \in {"skip", "click", "return_false"} /\ Truthy(b.text)
               /\ (contains(lower(b.text), Str_waiting) \/ contains(lower(b.text), Str_full)))
                  => class_events[k].act = "return_false"
    /\ Attempted("terms") /\ booking_kind = "class" => Inspected("click") # {}

\* C30 witness: the first matching container's button reads 'Book Waiting
\* List', a second matching container has a visible 'Book' button, and
\* book_class has returned False after one inspection
C30_Witness ==
    /\ Len(class_containers) = 2
    /\ class_containers[1].button = ContainerPool[5].button /\ class_containers[1].matches
    /\ class_containers[2] = ContainerPool[2]
    /\ Len(class_events) = 2 /\ class_events[2].act = "return_false"
    /\ returns = <<TRUE, FALSE>>

=============================================================================
